---- MODULE Spec2Model ----
(***************************************************************************)
(* Model of the self-reloading daemon core of proxmox-rest-server          *)
(* (src/proxmox-rest-server/src/daemon.rs, src/proxmox-rest-server/src/    *)
(* lib.rs): the Reloader registry, the double-fork re-exec protocol        *)
(* (fork_restart), the fd token store/restore functions and the            *)
(* create_daemon orchestrator.                                             *)
(*                                                                         *)
(* A process generation g is one run of create_daemon in one process       *)
(* image.  A reload of generation g forks an intermediate child and a      *)
(* grandchild; the grandchild's exec starts generation g+1.                *)
(***************************************************************************)
EXTENDS Integers, Sequences, FiniteSets

(* ------------------------------ bounds -------------------------------- *)

\* Number of process generations modelled (reloads are capped at MaxGen-1).
MaxGen == 2

\* Highest file descriptor number of a process's descriptor table.
MaxFd == 6

\* PID of the first generation's process; later PIDs are handed out upwards.
FirstPid == 299

\* Number of injected failures (failing system calls, failing supervisor
\* calls, killed processes) in one behaviour.
MaxFaults == 1

\* Highest number of entries of a registry handed to Reloader::pre_exec on its
\* own.
MaxEntries == 3

(* --------------------------- program constants ------------------------ *)

\* size of libc::pid_t in bytes: the width of the PID message
PidWidth == 4

\* the go-ahead byte the parent writes
GoAheadByte == 1

Gens == 1..MaxGen
FdNums == 0..MaxFd

LISTEN_FD == "PROXMOX_BACKUP_LISTEN_FD"
\* a second name a caller of Reloader::restore can register a resource under
SECOND_FD == "SECOND_LISTEN_FD"
EnvNames == {LISTEN_FD, SECOND_FD}

(* ------------------------- decimal text <-> numbers ------------------- *)

Digits == <<"0", "1", "2", "3", "4", "5", "6", "7", "8", "9">>

IsDigit(c) == \E i \in 1..10 : Digits[i] = c

DigitVal(c) == (CHOOSE i \in 1..10 : Digits[i] = c) - 1

\* i32 / u32 Display: decimal text without sign for n >= 0, "-" and the
\* magnitude for n < 0.
RECURSIVE NatToString(_)
NatToString(n) ==
    IF n < 10 THEN <<Digits[n + 1]>>
    ELSE NatToString(n \div 10) \o <<Digits[(n % 10) + 1]>>

to_string(n) == IF n < 0 THEN <<"-">> \o NatToString(0 - n) ELSE NatToString(n)

\* A u32 is kept as two 16 bit limbs [hi, lo]; ok = FALSE is a ParseIntError.
ParseError == [ok |-> FALSE, hi |-> 0, lo |-> 0]

\* checked result = result * 10 + digit on the limbs; overflow is an error
Limbs(hi, lo) ==
    IF hi > 65535 THEN ParseError ELSE [ok |-> TRUE, hi |-> hi, lo |-> lo % 65536]

CarryLimbs(hi10, lo) == Limbs(hi10 + (lo \div 65536), lo)

Accumulate(acc, d) == CarryLimbs(acc.hi * 10, acc.lo * 10 + d)

RECURSIVE ParseDigits(_, _)
ParseDigits(s, acc) ==
    IF ~acc.ok \/ s = <<>> THEN acc
    ELSE IF ~IsDigit(Head(s)) THEN ParseError
    ELSE ParseDigits(Tail(s), Accumulate(acc, DigitVal(Head(s))))

ParseUnsigned(body) ==
    IF body = <<>> THEN ParseError
    ELSE ParseDigits(body, [ok |-> TRUE, hi |-> 0, lo |-> 0])

\* str::parse::<u32>(): an optional leading "+", then at least one digit,
\* nothing else, value at most 2^32 - 1.
ParseU32(s) == ParseUnsigned(IF Len(s) > 0 /\ s[1] = "+" THEN Tail(s) ELSE s)

\* `as RawFd`: the u32 reinterpreted as i32 (wraps for values >= 2^31).
AsRawFd(u) ==
    IF u.hi >= 32768 THEN (u.hi - 65536) * 65536 + u.lo ELSE u.hi * 65536 + u.lo

(* ------------------------- pid_t <-> native bytes --------------------- *)

RECURSIVE Pow256(_)
Pow256(i) == IF i = 0 THEN 1 ELSE 256 * Pow256(i - 1)

\* a sender that writes the PID most significant byte first
ToBeBytes(pid) == [i \in 1..PidWidth |-> (pid \div Pow256(PidWidth - i)) % 256]

\* pid_t::to_ne_bytes (little endian host), for pid >= 0
ToNeBytes(pid) == [i \in 1..PidWidth |-> (pid \div Pow256(i - 1)) % 256]

RECURSIVE FromNeBytesUpTo(_, _)
FromNeBytesUpTo(b, i) ==
    IF i = 0 THEN 0 ELSE FromNeBytesUpTo(b, i - 1) + b[i] * Pow256(i - 1)

\* pid_t::from_ne_bytes
FromNeBytes(b) == FromNeBytesUpTo(b, PidWidth)

(* --------------------------- descriptor tables ------------------------ *)

NoFd == [kind |-> "none", id |-> 0, cloexec |-> FALSE]

Stdio == [kind |-> "stdio", id |-> 0, cloexec |-> FALSE]

\* a listening socket; id names the bind() that created it (0: a socket
\* inherited by the first generation)
ListenSock(id, cloexec) == [kind |-> "listen", id |-> id, cloexec |-> cloexec]

EmptyTable == [f \in FdNums |-> IF f <= 2 THEN Stdio ELSE NoFd]

IsOpen(t, fd) == fd \in FdNums /\ t[fd].kind # "none"

\* lowest free descriptor >= min, or -1 (EMFILE)
LowestFree(t, min) ==
    IF \E f \in FdNums : f >= min /\ ~IsOpen(t, f)
    THEN CHOOSE f \in FdNums :
            /\ f >= min /\ ~IsOpen(t, f)
            /\ \A h \in FdNums : (h >= min /\ ~IsOpen(t, h)) => f <= h
    ELSE -1

Close(t, fd) == IF fd \in FdNums THEN [t EXCEPT ![fd] = NoFd] ELSE t

CloseKind(t, kind) == [f \in FdNums |-> IF t[f].kind = kind THEN NoFd ELSE t[f]]

CloseAll == [f \in FdNums |-> NoFd]

HoldsKind(t, kind, id) == \E f \in FdNums : t[f].kind = kind /\ t[f].id = id

\* proxmox_sys::fd::fd_change_cloexec: fcntl F_GETFD / F_SETFD
fd_change_cloexec(t, fd, on) == [t EXCEPT ![fd].cloexec = on]

\* what execve leaves of a descriptor table
ExecTable(t) == [f \in FdNums |-> IF t[f].cloexec THEN NoFd ELSE t[f]]

(* ------------------------------- state -------------------------------- *)

VARIABLES
    pc,                 \* [g]: position of create_daemon / fork_restart (parent)
    pid,                \* [g]: process id of generation g
    env,                \* [g][name]: the process environment
    fds,                \* [g]: descriptor table of the process
    listener,           \* [g]: raw fd owned by the listener object, -1: none
    pre_exec,           \* [g]: Reloader.pre_exec, a sequence of PreExecEntry
    pidfn,              \* [g]: TRUE iff create_daemon was given Some(pid file)
    svc,                \* [g]: the service body: none / running / finished /
                        \*      dropped (its future was consumed and dropped)
    finish_future,      \* [g]: TRUE iff the drain future was retained
    SHUTDOWN_REQUESTED, \* [g]: the process-wide shutdown flag
    reload_request,     \* [g]: the reload flag of the signal source
    result,             \* [g]: what create_daemon returned: none / Ok / Err
    fr_result,          \* [g]: what fork_restart returned: none / Ok / Err
    trace,              \* [g]: supervisor calls and handshake steps, in order
    factoryCalls,       \* [g]: number of invocations of or_create
    child_pid,          \* [g]: the PID the parent read from the channel
    mpc,                \* [g]: position of the intermediate child
    mpid,               \* [g]: process id of the intermediate child
    gpc,                \* [g]: position of the grandchild
    gpid,               \* [g]: process id of the grandchild
    gfds,               \* [g]: descriptor table of the grandchild
    genv,               \* [g]: environment of the grandchild
    gpre_exec,          \* [g]: the grandchild's copy of Reloader.pre_exec
    store_calls,        \* [g]: the store functions pre_exec invoked, in order
    ok_byte,            \* [g]: the byte the grandchild read, -1: none
    toParent,           \* [g]: bytes sent grandchild -> parent, unread
    toChild,            \* [g]: bytes sent parent -> grandchild, unread
    pidFile,            \* content of the PID file
    faults,             \* number of failures injected so far
    nextPid             \* the next PID fork() hands out

orchVars == <<pc, pid, env, fds, listener, pre_exec, pidfn, svc, finish_future,
              result, fr_result, trace, factoryCalls, child_pid>>
flagVars == <<SHUTDOWN_REQUESTED, reload_request>>
childVars == <<mpc, mpid, gpc, gpid, gfds, genv, gpre_exec, store_calls, ok_byte>>
chanVars == <<toParent, toChild>>
vars == <<orchVars, flagVars, childVars, chanVars, pidFile, nextPid, faults>>

\* A step whose outcome is a failure (bad) uses up one of the MaxFaults.
Faulty(bad) ==
    IF bad THEN faults < MaxFaults /\ faults' = faults + 1 ELSE faults' = faults

\* values of an environment variable (std::env::var)
Absent == [state |-> "absent", str |-> <<>>]
NotUnicode == [state |-> "notunicode", str |-> <<>>]
Present(s) == [state |-> "present", str |-> s]

\* How the first generation can be started: fresh, as if exec'd by an earlier
\* generation (token "3" naming an inherited listening socket), or with an
\* unusable variable: "-5", "5" (not an open descriptor), 2^31 in decimal,
\* a value that is not unicode.
InitScenarios ==
    { [env |-> Absent, fds |-> EmptyTable],
      [env |-> Present(<<"3">>),
       fds |-> [EmptyTable EXCEPT ![3] = ListenSock(0, FALSE)]],
      [env |-> Present(<<"-", "5">>), fds |-> EmptyTable],
      [env |-> Present(<<"5">>), fds |-> EmptyTable],
      [env |-> Present(<<"2", "1", "4", "7", "4", "8", "3", "6", "4", "8">>),
       fds |-> EmptyTable],
      [env |-> NotUnicode, fds |-> EmptyTable] }

Init ==
    \E sc \in InitScenarios, pf \in BOOLEAN :
        /\ pc = [g \in Gens |-> IF g = 1 THEN "new" ELSE "none"]
        /\ pid = [g \in Gens |-> IF g = 1 THEN FirstPid ELSE 0]
        /\ env = [g \in Gens |-> [n \in EnvNames |->
                    IF g = 1 /\ n = LISTEN_FD THEN sc.env ELSE Absent]]
        /\ fds = [g \in Gens |-> IF g = 1 THEN sc.fds ELSE CloseAll]
        /\ listener = [g \in Gens |-> -1]
        /\ pre_exec = [g \in Gens |-> <<>>]
        /\ pidfn = [g \in Gens |-> pf]
        /\ svc = [g \in Gens |-> "none"]
        /\ finish_future = [g \in Gens |-> FALSE]
        /\ SHUTDOWN_REQUESTED = [g \in Gens |-> FALSE]
        /\ reload_request = [g \in Gens |-> FALSE]
        /\ result = [g \in Gens |-> "none"]
        /\ fr_result = [g \in Gens |-> "none"]
        /\ trace = [g \in Gens |-> <<>>]
        /\ factoryCalls = [g \in Gens |-> 0]
        /\ child_pid = [g \in Gens |-> 0]
        /\ mpc = [g \in Gens |-> "none"]
        /\ mpid = [g \in Gens |-> 0]
        /\ gpc = [g \in Gens |-> "none"]
        /\ gpid = [g \in Gens |-> 0]
        /\ gfds = [g \in Gens |-> CloseAll]
        /\ genv = [g \in Gens |-> [n \in EnvNames |-> Absent]]
        /\ gpre_exec = [g \in Gens |-> <<>>]
        /\ store_calls = [g \in Gens |-> <<>>]
        /\ ok_byte = [g \in Gens |-> -1]
        /\ toParent = [g \in Gens |-> <<>>]
        /\ toChild = [g \in Gens |-> <<>>]
        /\ pidFile = <<>>
        /\ faults = 0
        /\ nextPid = FirstPid + 1

(* ------------------- restorable resources (fd tokens) ----------------- *)

\* fd_store_func: duplicate the listener's fd (F_DUPFD_CLOEXEC(0)) so that the
\* store closure owns a handle of its own.  dupOk = FALSE: fcntl fails.
DupFdCloexec(t, fd, d, dupOk) ==
    IF ~dupOk \/ d = -1 \/ ~IsOpen(t, fd)
    THEN [ok |-> FALSE, fd_opt |-> -1, fds |-> t]
    ELSE [ok |-> TRUE, fd_opt |-> d,
          fds |-> [t EXCEPT ![d] = [t[fd] EXCEPT !.cloexec = TRUE]]]

\* a store function that keeps the listener's own descriptor, not a duplicate
fd_store_func_nodup(t, fd, dupOk) ==
    IF ~dupOk \/ ~IsOpen(t, fd)
    THEN [ok |-> FALSE, fd_opt |-> -1, fds |-> t]
    ELSE [ok |-> TRUE, fd_opt |-> fd, fds |-> t]

fd_store_func(t, fd, dupOk) == DupFdCloexec(t, fd, LowestFree(t, 0), dupOk)

\* a store closure that leaves close-on-exec set on the duplicate
StoreFnKeepsCloexec(t, fd_opt, fcntlOk) ==
    IF ~fcntlOk \/ ~IsOpen(t, fd_opt)
    THEN [ok |-> FALSE, token |-> <<>>, fds |-> Close(t, fd_opt)]
    ELSE [ok |-> TRUE, token |-> to_string(fd_opt), fds |-> t]

\* The closure fd_store_func returns: clear close-on-exec on the duplicate and
\* give its number as decimal text.  On an error the OwnedFd is dropped.
StoreFn(t, fd_opt, fcntlOk) ==
    IF ~fcntlOk \/ ~IsOpen(t, fd_opt)
    THEN [ok |-> FALSE, token |-> <<>>, fds |-> Close(t, fd_opt)]
    ELSE [ok |-> TRUE, token |-> to_string(fd_opt),
          fds |-> fd_change_cloexec(t, fd_opt, FALSE)]

\* a restore that adopts the descriptor without setting close-on-exec
AdoptFdLeavesFlag(t, fd) ==
    IF ~IsOpen(t, fd) THEN [err |-> "os", fd |-> -1, fds |-> t]
    ELSE [err |-> "none", fd |-> fd, fds |-> t]

\* fd_restore_func: parse the token as u32, cast to RawFd, set close-on-exec.
\* fd_change_cloexec(fd, true)?; T::from_raw_fd(fd)
AdoptFd(t, fd) ==
    IF ~IsOpen(t, fd) THEN [err |-> "os", fd |-> -1, fds |-> t]
    ELSE [err |-> "none", fd |-> fd, fds |-> fd_change_cloexec(t, fd, TRUE)]

\* an fd_restore_func that adopts the descriptor without setting
\* close-on-exec on it
RestoreParsedKeepsInheritable(t, u) ==
    IF ~u.ok THEN [err |-> "parse", fd |-> -1, fds |-> t]
    ELSE IF ~IsOpen(t, AsRawFd(u)) THEN [err |-> "os", fd |-> -1, fds |-> t]
    ELSE [err |-> "none", fd |-> AsRawFd(u), fds |-> t]

RestoreParsed(t, u) ==
    IF ~u.ok THEN [err |-> "parse", fd |-> -1, fds |-> t] ELSE AdoptFd(t, AsRawFd(u))

fd_restore_func(t, var) == RestoreParsed(t, ParseU32(var))

\* Self::from_std(std listener): a failure drops (closes) the std listener
FromStd(t, r, fromStdOk) ==
    IF r.err # "none" THEN [ok |-> FALSE, fd |-> -1, fds |-> t, err |-> r.err]
    ELSE IF ~fromStdOk
    THEN [ok |-> FALSE, fd |-> -1, fds |-> Close(r.fds, r.fd), err |-> "from_std"]
    ELSE [ok |-> TRUE, fd |-> r.fd, fds |-> r.fds, err |-> "none"]

\* Reloadable::restore of a listener: fd_restore_func, then from_std
Listener_restore(t, var, fromStdOk) == FromStd(t, fd_restore_func(t, var), fromStdOk)

BindAt(t, f, id, bindOk) ==
    IF ~bindOk \/ f = -1 THEN [ok |-> FALSE, fd |-> -1, fds |-> t, err |-> "bind"]
    ELSE [ok |-> TRUE, fd |-> f, fds |-> [t EXCEPT ![f] = ListenSock(id, TRUE)],
          err |-> "none"]

\* Listenable::bind: a new listening socket (close-on-exec, as every socket
\* the runtime creates) on the lowest free descriptor; bindOk = FALSE covers a
\* unix address without a path and every failing system call.
Listener_bind(t, id, bindOk) == BindAt(t, LowestFree(t, 0), id, bindOk)

(* ------------------------------ Reloader ------------------------------ *)

\* Reloader::restore(name, or_create): `factory` counts the calls of or_create.
\* let res = match std::env::var(name) { ... }: restore from the variable,
\* call the factory when it is absent, bail when it is not unicode.
\* `factory` is 1 iff or_create was called.
\* `err` names what failed: "parse" (parse::<u32>), "os" (fd_change_cloexec),
\* "from_std", "bind", "notunicode", or "none".
WithFactory(r, n) ==
    [ok |-> r.ok, fd |-> r.fd, fds |-> r.fds, factory |-> n, err |-> r.err]

\* a restore that falls back to the factory when the variable is unusable
OrElseBind(r, t, id, bindOk) ==
    IF r.ok THEN WithFactory(r, 0) ELSE WithFactory(Listener_bind(t, id, bindOk), 1)

RestoreOrCreateFallback(t, var, id, fromStdOk, bindOk) ==
    CASE var.state = "present" ->
             OrElseBind(Listener_restore(t, var.str, fromStdOk), t, id, bindOk)
      [] OTHER -> WithFactory(Listener_bind(t, id, bindOk), 1)

RestoreOrCreate(t, var, id, fromStdOk, bindOk) ==
    CASE var.state = "present" -> WithFactory(Listener_restore(t, var.str, fromStdOk), 0)
      [] var.state = "absent" -> WithFactory(Listener_bind(t, id, bindOk), 1)
      [] OTHER -> [ok |-> FALSE, fd |-> -1, fds |-> t, factory |-> 0,
                   err |-> "notunicode"]

\* a restore that returns the resource without recording an entry for it
PushEntryForgets(reg, name, got, sf) ==
    IF ~sf.ok
    THEN [ok |-> FALSE, listener |-> -1, fds |-> Close(got.fds, got.fd),
          pre_exec |-> reg, factory |-> got.factory, got |-> TRUE, err |-> "none"]
    ELSE [ok |-> TRUE, listener |-> got.fd, fds |-> got.fds,
          pre_exec |-> reg, factory |-> got.factory, got |-> TRUE, err |-> "none"]

\* self.pre_exec.push(PreExecEntry { name, store_fn: res.get_store_func()? });
\* an error drops res (closes the listener) and leaves the registry alone.
\* `got` tells whether the resource was obtained (restored or created).
\* a registry that puts the new entry in front of the existing ones
PushEntryFront(reg, name, got, sf) ==
    IF ~sf.ok
    THEN [ok |-> FALSE, listener |-> -1, fds |-> Close(got.fds, got.fd),
          pre_exec |-> reg, factory |-> got.factory, got |-> TRUE, err |-> "none"]
    ELSE [ok |-> TRUE, listener |-> got.fd, fds |-> sf.fds,
          pre_exec |-> <<[name |-> name, fd_opt |-> sf.fd_opt]>> \o reg,
          factory |-> got.factory, got |-> TRUE, err |-> "none"]

PushEntry(reg, name, got, sf) ==
    IF ~sf.ok
    THEN [ok |-> FALSE, listener |-> -1, fds |-> Close(got.fds, got.fd),
          pre_exec |-> reg, factory |-> got.factory, got |-> TRUE, err |-> "none"]
    ELSE [ok |-> TRUE, listener |-> got.fd, fds |-> sf.fds,
          pre_exec |-> Append(reg, [name |-> name, fd_opt |-> sf.fd_opt]),
          factory |-> got.factory, got |-> TRUE, err |-> "none"]

Register(reg, name, got, dupOk) ==
    IF ~got.ok
    THEN [ok |-> FALSE, listener |-> -1, fds |-> got.fds, pre_exec |-> reg,
          factory |-> got.factory, got |-> FALSE, err |-> got.err]
    ELSE PushEntry(reg, name, got, fd_store_func(got.fds, got.fd, dupOk))

Reloader_restore(t, reg, name, var, id, fromStdOk, bindOk, dupOk) ==
    Register(reg, name, RestoreOrCreate(t, var, id, fromStdOk, bindOk), dupOk)

\* Reloader::pre_exec: run every entry's store function in insertion order and
\* set the entry's variable; failAt names the entry whose store function fails
\* (0: none).
\* calls lists the store functions invoked so far, each with its outcome.
RECURSIVE pre_exec_from(_, _, _, _, _, _)
\* a pre_exec that goes on to the next entry after a failed store function
SetVarGoesOn(e, reg, i, failAt, s, calls) ==
    pre_exec_from(s.fds,
                  IF s.ok THEN [e EXCEPT ![reg[i].name] = Present(s.token)] ELSE e,
                  reg, i + 1, failAt, calls)

\* std::env::set_var(item.name, (item.store_fn)()?)
SetVar(e, reg, i, failAt, s, calls) ==
    IF ~s.ok THEN [ok |-> FALSE, fds |-> s.fds, env |-> e, calls |-> calls]
    ELSE pre_exec_from(s.fds, [e EXCEPT ![reg[i].name] = Present(s.token)],
                       reg, i + 1, failAt, calls)

\* for item in self.pre_exec { ... } Ok(())
pre_exec_from(t, e, reg, i, failAt, calls) ==
    IF i > Len(reg) THEN [ok |-> TRUE, fds |-> t, env |-> e, calls |-> calls]
    ELSE SetVar(e, reg, i, failAt, StoreFn(t, reg[i].fd_opt, i # failAt),
                Append(calls, [entry |-> i, ok |-> i # failAt]))

Reloader_pre_exec(t, e, reg, failAt) == pre_exec_from(t, e, reg, 1, failAt, <<>>)

\* a drop of the registry that closes every listening descriptor
DropReloaderClosesListeners(t, reg) == CloseKind(t, "listen")

\* Dropping a Reloader drops its entries' closures, which own the duplicates.
RECURSIVE DropReloader(_, _)
DropReloader(t, reg) ==
    IF reg = <<>> THEN t ELSE DropReloader(Close(t, Head(reg).fd_opt), Tail(reg))

(* ------------------------ supervisor notification --------------------- *)

\* systemd_notify: the message handed to sd_notify
NotifyMessage(state, arg) ==
    CASE state = "Ready" -> [key |-> "READY", value |-> <<"1">>]
      [] state = "Reloading" -> [key |-> "RELOADING", value |-> <<"1">>]
      [] state = "Stopping" -> [key |-> "STOPPING", value |-> <<"1">>]
      [] state = "Status" -> [key |-> "STATUS", value |-> arg]
      [] state = "MainPid" -> [key |-> "MAINPID", value |-> to_string(arg)]

NotifyEvent(state, arg, ok) ==
    [ev |-> "notify", msg |-> NotifyMessage(state, arg), ok |-> ok]

BarrierEvent(ok) ==
    [ev |-> "barrier", msg |-> [key |-> "", value |-> <<>>], ok |-> ok]

\* read_exact on pold: the bytes it got, and whether they were all
ReadEvent(bytes, ok) ==
    [ev |-> "read_pid", msg |-> [key |-> "", value |-> bytes], ok |-> ok]

\* a step that ended with the error named err ("none": it succeeded)
ErrEvent(name, err) ==
    [ev |-> name, msg |-> [key |-> err, value |-> <<>>], ok |-> err = "none"]

StepEvent(name, ok) ==
    [ev |-> name, msg |-> [key |-> "", value |-> <<>>], ok |-> ok]

(* --------------------- signal source and service body ----------------- *)

Alive(g) == pc[g] \notin {"none", "done", "failed", "killed"}

\* A signal takes effect on create_daemon only through the flags it reads at
\* the select and at the reload check, so signals are delivered there.
SignalWindow(g) == pc[g] \in {"select", "check_reload"}

\* a request_shutdown that flips the flag
request_shutdown_flips(flag) == ~flag

\* request_shutdown: SHUTDOWN_REQUESTED.store(true, Ordering::SeqCst); the value
\* of the flag afterwards
request_shutdown(flag) == TRUE

\* request_shutdown (lib.rs) as called by the SIGINT handler
SignalShutdown(g) ==
    /\ SignalWindow(g)
    /\ reload_request' = [reload_request EXCEPT ![g] = FALSE]
    /\ SHUTDOWN_REQUESTED' = [SHUTDOWN_REQUESTED EXCEPT ![g] = request_shutdown(@)]
    /\ UNCHANGED <<orchVars, childVars, chanVars, pidFile, nextPid>>
    /\ UNCHANGED faults

\* the SIGHUP handler: flag the reload, then request_shutdown
SignalReload(g) ==
    /\ SignalWindow(g)
    /\ g < MaxGen
    /\ reload_request' = [reload_request EXCEPT ![g] = TRUE]
    /\ SHUTDOWN_REQUESTED' = [SHUTDOWN_REQUESTED EXCEPT ![g] = request_shutdown(@)]
    /\ UNCHANGED <<orchVars, childVars, chanVars, pidFile, nextPid>>
    /\ UNCHANGED faults

is_reload_request(g) == SHUTDOWN_REQUESTED[g] /\ reload_request[g]

shutdown_requested(g) == SHUTDOWN_REQUESTED[g]

SvcDone(g) == svc[g] = "finished"

\* what service.await can give
ServiceOutputs == {"Ok", "Err"}

\* a wrapper that hands the error of the service body on
ServiceWrapperPropagates(out) == IF out = "Err" THEN "Err" ELSE "finished"

\* `async move { if let Err(err) = service.await { log::error!(...) } }`: the
\* state of the wrapped future once service.await gave out; its output is ()
\* whatever the service body returned
ServiceWrapper(out) == "finished"

\* the line the wrapper logs for an error of the service body
ServerErrorEvent == StepEvent("server_error", FALSE)

\* The service body ends, with an error or without.  create_daemon observes
\* the end only at the select and at the drain.  The log line is kept in the
\* trace when it is one of the logged ones.
ServiceEnd(g, logged) ==
    /\ svc[g] = "running"
    /\ pc[g] \in {"select", "drain"}
    /\ \E out \in ServiceOutputs :
          /\ svc' = [svc EXCEPT ![g] = ServiceWrapper(out)]
          /\ trace' = [trace EXCEPT ![g] =
                IF "server_error" \in logged /\ out = "Err"
                THEN Append(@, ServerErrorEvent)
                ELSE @]
    /\ UNCHANGED <<pc, pid, env, fds, listener, pre_exec, pidfn, finish_future,
                   result, fr_result, factoryCalls, child_pid>>
    /\ UNCHANGED <<flagVars, childVars, chanVars, pidFile, nextPid>>
    /\ UNCHANGED faults

ServiceFinish(g) == ServiceEnd(g, {})

ServiceFinishLogged(g) == ServiceEnd(g, {"server_error"})

(* ----------------------------- create_daemon -------------------------- *)

\* a create_daemon that goes on to the termination race after an error
ReturnErrGoesOn(g, t) ==
    /\ pc' = [pc EXCEPT ![g] = "select"]
    /\ result' = result
    /\ fds' = [fds EXCEPT ![g] = t]
    /\ listener' = [listener EXCEPT ![g] = -1]
    /\ pre_exec' = [pre_exec EXCEPT ![g] = <<>>]

\* `?` out of create_daemon: every local is dropped (the listener, the Reloader)
ReturnErr(g, t) ==
    /\ pc' = [pc EXCEPT ![g] = "failed"]
    /\ result' = [result EXCEPT ![g] = "Err"]
    /\ fds' = [fds EXCEPT ![g] = t]
    /\ listener' = [listener EXCEPT ![g] = -1]
    /\ pre_exec' = [pre_exec EXCEPT ![g] = <<>>]

\* Reloader::new(): read_link("/proc/self/exe")
CD_ReloaderNew(g) ==
    /\ pc[g] = "new"
    /\ \E ok \in BOOLEAN :
        /\ Faulty(~ok)
        /\ IF ok THEN /\ pc' = [pc EXCEPT ![g] = "restore"]
                      /\ UNCHANGED <<result, fds, listener, pre_exec>>
                 ELSE ReturnErr(g, fds[g])
    /\ UNCHANGED <<pid, env, pidfn, svc, finish_future, fr_result, trace,
                   factoryCalls, child_pid>>
    /\ UNCHANGED <<flagVars, childVars, chanVars, pidFile, nextPid>>

\* The system calls that can be made to fail inside Reloader::restore: tokio's
\* from_std, the factory's bind, fcntl(F_DUPFD_CLOEXEC).
RestoreFaults == {"none", "from_std", "bind", "dup"}

\* reloader.restore("PROXMOX_BACKUP_LISTEN_FD", || L::bind(&address))
\* what Reloader::restore did: the factory call or the restoration with its
\* outcome, then get_store_func with its outcome
RestoreEvents(r) ==
    <<ErrEvent(IF r.factory = 1 THEN "factory" ELSE "restore", r.err)>>
    \o (IF r.got THEN <<StepEvent("get_store_func", r.ok)>> ELSE <<>>)

\* r: what restore does under the chosen fault, r0: what it does without one
\* (a fault that changes nothing, such as a failing bind that is never
\* called, is not a case of its own).
CD_RestoreResult(g, fault, r, r0) ==
    /\ fault = "none" \/ r # r0
    /\ Faulty(fault # "none")
    /\ factoryCalls' = [factoryCalls EXCEPT ![g] = @ + r.factory]
    /\ trace' = [trace EXCEPT ![g] = @ \o RestoreEvents(r)]
    /\ IF r.ok
       THEN /\ pc' = [pc EXCEPT ![g] = "create_service"]
            /\ fds' = [fds EXCEPT ![g] = r.fds]
            /\ listener' = [listener EXCEPT ![g] = r.listener]
            /\ pre_exec' = [pre_exec EXCEPT ![g] = r.pre_exec]
            /\ UNCHANGED result
       ELSE ReturnErr(g, DropReloader(r.fds, r.pre_exec))

CD_Restore(g) ==
    /\ pc[g] = "restore"
    /\ \E fault \in RestoreFaults :
        CD_RestoreResult(g, fault,
            Reloader_restore(fds[g], pre_exec[g], LISTEN_FD, env[g][LISTEN_FD],
                             g, fault # "from_std", fault # "bind", fault # "dup"),
            Reloader_restore(fds[g], pre_exec[g], LISTEN_FD, env[g][LISTEN_FD],
                             g, TRUE, TRUE, TRUE))
    /\ UNCHANGED <<pid, env, pidfn, svc, finish_future, fr_result, child_pid>>
    /\ UNCHANGED <<flagVars, childVars, chanVars, pidFile, nextPid>>

\* create_service(listener)?: the listener moves into the service
CD_CreateService(g) ==
    /\ pc[g] = "create_service"
    /\ \E ok \in BOOLEAN :
        /\ Faulty(~ok)
        /\ trace' = [trace EXCEPT ![g] = Append(@, StepEvent("create_service", ok))]
        /\ IF ok THEN /\ pc' = [pc EXCEPT ![g] = "select"]
                      /\ svc' = [svc EXCEPT ![g] = "running"]
                      /\ UNCHANGED <<result, fds, listener, pre_exec>>
                 ELSE /\ ReturnErr(g, DropReloader(Close(fds[g], listener[g]),
                                                   pre_exec[g]))
                      /\ UNCHANGED svc
    /\ UNCHANGED <<pid, env, pidfn, finish_future, fr_result, factoryCalls, child_pid>>
    /\ UNCHANGED <<flagVars, childVars, chanVars, pidFile, nextPid>>

\* future::select(server_future, shutdown_future): the server future is polled
\* first.  Left: the finished service body is dropped with its listener and
\* shutdown mode is forced (request_shutdown is called only when the flag is
\* not set yet; the call is kept in the trace when it is logged).  Right: the
\* service body is kept to be drained.
SelectRace(g, logged) ==
    /\ pc[g] = "select"
    /\ SvcDone(g) \/ shutdown_requested(g)
    /\ pc' = [pc EXCEPT ![g] = "check_reload"]
    /\ IF SvcDone(g)
       THEN /\ finish_future' = [finish_future EXCEPT ![g] = FALSE]
            /\ SHUTDOWN_REQUESTED' = [SHUTDOWN_REQUESTED EXCEPT ![g] =
                  IF @ THEN @ ELSE request_shutdown(@)]
            /\ trace' = [trace EXCEPT ![g] =
                  IF "request_shutdown" \in logged /\ ~shutdown_requested(g)
                  THEN Append(@, StepEvent("request_shutdown", TRUE))
                  ELSE @]
            /\ fds' = [fds EXCEPT ![g] = Close(@, listener[g])]
            /\ listener' = [listener EXCEPT ![g] = -1]
            /\ svc' = [svc EXCEPT ![g] = "dropped"]
       ELSE /\ finish_future' = [finish_future EXCEPT ![g] = TRUE]
            /\ UNCHANGED <<SHUTDOWN_REQUESTED, fds, listener, svc, trace>>
    /\ UNCHANGED <<pid, env, pre_exec, pidfn, result, fr_result, factoryCalls, child_pid>>
    /\ UNCHANGED <<reload_request, childVars, chanVars, pidFile, nextPid>>
    /\ UNCHANGED faults

CD_Select(g) == SelectRace(g, {})

CD_SelectLogged(g) == SelectRace(g, {"request_shutdown"})

\* an orchestrator that runs the reload sequence on every termination
AfterCheckAlwaysReload(isReload) == "notify_reloading"

\* an orchestrator that starts the re-exec protocol without telling the
\* supervisor first
AfterCheckForksAtOnce(isReload) == IF isReload THEN "socketpair" ELSE "drain"

\* a create_daemon that never takes the reload branch
AfterCheckNeverReloads(isReload) == "drain"

\* where create_daemon goes from the reload check
AfterCheck(isReload) == IF isReload THEN "notify_reloading" ELSE "drain"

\* if crate::is_reload_request() { ... } else { "daemon shutting down..." }
CD_CheckReload(g) ==
    /\ pc[g] = "check_reload"
    /\ pc' = [pc EXCEPT ![g] = AfterCheck(is_reload_request(g))]
    /\ UNCHANGED <<pid, env, fds, listener, pre_exec, pidfn, svc, finish_future,
                   result, fr_result, trace, factoryCalls, child_pid>>
    /\ UNCHANGED <<flagVars, childVars, chanVars, pidFile, nextPid>>
    /\ UNCHANGED faults

\* systemd_notify(SystemdNotify::Reloading): an error is logged
CD_NotifyReloading(g) ==
    /\ pc[g] = "notify_reloading"
    /\ \E ok \in BOOLEAN :
        /\ Faulty(~ok)
        /\ trace' = [trace EXCEPT ![g] = Append(@, NotifyEvent("Reloading", <<>>, ok))]
    /\ pc' = [pc EXCEPT ![g] = "barrier"]
    /\ UNCHANGED <<pid, env, fds, listener, pre_exec, pidfn, svc, finish_future,
                   result, fr_result, factoryCalls, child_pid>>
    /\ UNCHANGED <<flagVars, childVars, chanVars, pidFile, nextPid>>

\* systemd_notify_barrier(u64::MAX): an error is logged
CD_Barrier(g) ==
    /\ pc[g] = "barrier"
    /\ \E ok \in BOOLEAN :
        /\ Faulty(~ok)
        /\ trace' = [trace EXCEPT ![g] = Append(@, BarrierEvent(ok))]
    /\ pc' = [pc EXCEPT ![g] = "socketpair"]
    /\ UNCHANGED <<pid, env, fds, listener, pre_exec, pidfn, svc, finish_future,
                   result, fr_result, factoryCalls, child_pid>>
    /\ UNCHANGED <<flagVars, childVars, chanVars, pidFile, nextPid>>

\* an orchestrator that returns without awaiting the retained service body
DrainWithoutWaiting(g) == TRUE

\* `if let Some(future) = finish_future { future.await; }` can go on: there is
\* no retained service body, or it has run to completion
DrainReady(g) == finish_future[g] => SvcDone(g)

\* if let Some(future) = finish_future { future.await }; Ok(()).  The drained
\* service body is dropped with its listener, then every local.
CD_Drain(g) ==
    /\ pc[g] = "drain"
    /\ DrainReady(g)
    /\ pc' = [pc EXCEPT ![g] = "done"]
    /\ result' = [result EXCEPT ![g] = "Ok"]
    /\ fds' = [fds EXCEPT ![g] = DropReloader(Close(@, listener[g]), pre_exec[g])]
    /\ listener' = [listener EXCEPT ![g] = -1]
    /\ pre_exec' = [pre_exec EXCEPT ![g] = <<>>]
    /\ svc' = [svc EXCEPT ![g] = IF finish_future[g] /\ SvcDone(g) THEN "dropped" ELSE @]
    /\ UNCHANGED <<pid, env, pidfn, finish_future, fr_result, trace,
                   factoryCalls, child_pid>>
    /\ UNCHANGED <<flagVars, childVars, chanVars, pidFile, nextPid>>
    /\ UNCHANGED faults

(* ------------------- the synchronisation channel's ends --------------- *)

MidAlive(g) == mpc[g] = "fork2"

GAlive(g) == gpc[g] \in {"drop_pold", "send_pid", "read_go", "journal_out",
                         "journal_err", "pre_exec", "setsid", "exec"}

\* some process still holds the parent side endpoint (pold)
PoldOpen(g) ==
    \/ HoldsKind(fds[g], "pold", g)
    \/ MidAlive(g)
    \/ GAlive(g) /\ HoldsKind(gfds[g], "pold", g)

\* some process still holds the child side endpoint (pnew)
PnewOpen(g) ==
    \/ HoldsKind(fds[g], "pnew", g)
    \/ MidAlive(g)
    \/ GAlive(g) /\ HoldsKind(gfds[g], "pnew", g)

\* super::socketpair(): two connected close-on-exec endpoints
socketpair(t, g, ok) ==
    LET a == LowestFree(t, 0)
        b == IF a = -1 THEN -1 ELSE LowestFree(t, a + 1)
    IN  IF ~ok \/ a = -1 \/ b = -1 THEN [ok |-> FALSE, fds |-> t]
        ELSE [ok |-> TRUE,
              fds |-> [t EXCEPT ![a] = [kind |-> "pold", id |-> g, cloexec |-> TRUE],
                                ![b] = [kind |-> "pnew", id |-> g, cloexec |-> TRUE]]]

(* ---------------------- fork_restart: the parent ---------------------- *)

\* a create_daemon that tries fork_restart again after a failed one
AfterForkRestartRetries(res) == IF res = "Err" THEN "socketpair" ELSE "drain"

\* an orchestrator that keeps the error of fork_restart to its log
AfterForkRestartSilent(res) == "drain"

\* an orchestrator that propagates the error of fork_restart
AfterForkRestartPropagate(res) == IF res = "Err" THEN "failed" ELSE "drain"

\* create_daemon after fork_restart returned: an error is logged and reported
\* with a Status notification, then the orchestrator goes on to drain.
AfterForkRestart(res) == IF res = "Err" THEN "notify_status" ELSE "drain"

\* a parent that writes the go-ahead right after announcing the new PID,
\* without the barrier
ParentNextNoBarrier(at, ok) ==
    CASE at = "socketpair" -> IF ok THEN "fork1" ELSE "return_err"
      [] at = "fork1" -> IF ok THEN "p_drop_pnew" ELSE "return_ok"
      [] at = "p_drop_pnew" -> "p_read_pid"
      [] at = "p_read_pid" -> IF ok THEN "p_pidfile" ELSE "return_ok"
      [] at = "p_pidfile" -> IF ok THEN "p_mainpid" ELSE "return_err"
      [] at = "p_mainpid" -> "p_write_go"
      [] at = "p_barrier" -> "p_write_go"
      [] at = "p_write_go" -> "return_ok"

\* a parent that takes a failed first fork for a successful one
ParentNextForkFailGoesOn(at, ok) ==
    CASE at = "socketpair" -> IF ok THEN "fork1" ELSE "return_err"
      [] at = "fork1" -> "p_drop_pnew"
      [] at = "p_drop_pnew" -> "p_read_pid"
      [] at = "p_read_pid" -> IF ok THEN "p_pidfile" ELSE "return_ok"
      [] at = "p_pidfile" -> IF ok THEN "p_mainpid" ELSE "return_err"
      [] at = "p_mainpid" -> "p_barrier"
      [] at = "p_barrier" -> "p_write_go"
      [] at = "p_write_go" -> "return_ok"

\* a parent that carries on with the handshake after a failed PID read
ParentNextIgnoreShortPid(at, ok) ==
    CASE at = "socketpair" -> IF ok THEN "fork1" ELSE "return_err"
      [] at = "fork1" -> IF ok THEN "p_drop_pnew" ELSE "return_ok"
      [] at = "p_drop_pnew" -> "p_read_pid"
      [] at = "p_read_pid" -> "p_pidfile"
      [] at = "p_pidfile" -> IF ok THEN "p_mainpid" ELSE "return_err"
      [] at = "p_mainpid" -> "p_barrier"
      [] at = "p_barrier" -> "p_write_go"
      [] at = "p_write_go" -> "return_ok"

\* a parent that goes to its read of the PID with its copy of the child
\* side endpoint still open
ParentNextKeepsPnew(at, ok) ==
    CASE at = "socketpair" -> IF ok THEN "fork1" ELSE "return_err"
      [] at = "fork1" -> IF ok THEN "p_read_pid" ELSE "return_ok"
      [] at = "p_drop_pnew" -> "p_read_pid"
      [] at = "p_read_pid" -> IF ok THEN "p_pidfile" ELSE "return_ok"
      [] at = "p_pidfile" -> IF ok THEN "p_mainpid" ELSE "return_err"
      [] at = "p_mainpid" -> "p_barrier"
      [] at = "p_barrier" -> "p_write_go"
      [] at = "p_write_go" -> "return_ok"

\* a parent that writes the go-ahead before it has read a PID
ParentNextGoFirst(at, ok) ==
    CASE at = "socketpair" -> IF ok THEN "fork1" ELSE "return_err"
      [] at = "fork1" -> IF ok THEN "p_drop_pnew" ELSE "return_ok"
      [] at = "p_drop_pnew" -> "p_write_go"
      [] at = "p_read_pid" -> IF ok THEN "p_pidfile" ELSE "return_ok"
      [] at = "p_pidfile" -> IF ok THEN "p_mainpid" ELSE "return_err"
      [] at = "p_mainpid" -> "p_barrier"
      [] at = "p_barrier" -> "p_write_go"
      [] at = "p_write_go" -> "return_ok"

\* The parent branch of fork_restart, step by step: where it goes from `at`
\* when the step succeeded (ok) or failed.
ParentNext(at, ok) ==
    CASE at = "socketpair" -> IF ok THEN "fork1" ELSE "return_err"
      [] at = "fork1" -> IF ok THEN "p_drop_pnew" ELSE "return_ok"
      [] at = "p_drop_pnew" -> "p_read_pid"
      [] at = "p_read_pid" -> IF ok THEN "p_pidfile" ELSE "return_ok"
      [] at = "p_pidfile" -> IF ok THEN "p_mainpid" ELSE "return_err"
      [] at = "p_mainpid" -> "p_barrier"
      [] at = "p_barrier" -> "p_write_go"
      [] at = "p_write_go" -> "return_ok"

\* One step of the parent inside fork_restart.  Returning drops pold, pnew and
\* the Reloader (self), whose closures own the duplicated descriptors.
ParentStep(g, at, ok, t) ==
    LET next == ParentNext(at, ok)
    IN  IF next \in {"return_ok", "return_err"}
        THEN LET res == IF next = "return_ok" THEN "Ok" ELSE "Err"
             IN  /\ fr_result' = [fr_result EXCEPT ![g] = res]
                 /\ pc' = [pc EXCEPT ![g] = AfterForkRestart(res)]
                 /\ fds' = [fds EXCEPT ![g] =
                        DropReloader(CloseKind(CloseKind(t, "pold"), "pnew"), pre_exec[g])]
                 /\ pre_exec' = [pre_exec EXCEPT ![g] = <<>>]
        ELSE /\ pc' = [pc EXCEPT ![g] = next]
             /\ fds' = [fds EXCEPT ![g] = t]
             /\ UNCHANGED <<fr_result, pre_exec>>

\* let (pold, pnew) = super::socketpair()?;
FR_Socketpair(g) ==
    /\ pc[g] = "socketpair"
    /\ \E ok \in BOOLEAN :
        LET sp == socketpair(fds[g], g, ok)
        IN  /\ Faulty(~ok)
            /\ ParentStep(g, "socketpair", sp.ok, sp.fds)
    /\ UNCHANGED <<pid, env, listener, pidfn, svc, finish_future, result, trace,
                   factoryCalls, child_pid>>
    /\ UNCHANGED <<flagVars, childVars, chanVars, pidFile, nextPid>>

\* the first fork(): the child starts with a copy of the parent's memory and
\* descriptor table; a failure is logged and fork_restart returns Ok.
FR_Fork1(g) ==
    /\ pc[g] = "fork1"
    /\ \E ok \in BOOLEAN :
        /\ Faulty(~ok)
        /\ ParentStep(g, "fork1", ok, fds[g])
        /\ IF ok
           THEN /\ mpc' = [mpc EXCEPT ![g] = "fork2"]
                /\ mpid' = [mpid EXCEPT ![g] = nextPid]
                /\ gfds' = [gfds EXCEPT ![g] = fds[g]]
                /\ genv' = [genv EXCEPT ![g] = env[g]]
                /\ gpre_exec' = [gpre_exec EXCEPT ![g] = pre_exec[g]]
                /\ nextPid' = nextPid + 1
           ELSE UNCHANGED <<mpc, mpid, gfds, genv, gpre_exec, nextPid>>
    /\ UNCHANGED store_calls
    /\ UNCHANGED <<pid, env, listener, pidfn, svc, finish_future, result, trace,
                   factoryCalls, child_pid>>
    /\ UNCHANGED <<flagVars, gpc, gpid, ok_byte, chanVars, pidFile>>

\* a parent that keeps its copy of the child side endpoint
DropPnewKeeps(t) == t

\* std::mem::drop(pnew) in the parent
DropPnew(t) == CloseKind(t, "pnew")

FR_ParentDropPnew(g) ==
    /\ pc[g] = "p_drop_pnew"
    /\ ParentStep(g, "p_drop_pnew", TRUE, DropPnew(fds[g]))
    /\ UNCHANGED <<pid, env, listener, pidfn, svc, finish_future, result, trace,
                   factoryCalls, child_pid>>
    /\ UNCHANGED <<flagVars, childVars, chanVars, pidFile, nextPid>>
    /\ UNCHANGED faults

\* pold.read_exact(&mut child_pid): blocks until PidWidth bytes arrived, fails
\* (UnexpectedEof) when every copy of pnew is closed before that.
FR_ParentReadPid(g) ==
    /\ pc[g] = "p_read_pid"
    /\ \/ /\ Len(toParent[g]) >= PidWidth
          /\ child_pid' = [child_pid EXCEPT ![g] =
                               FromNeBytes(SubSeq(toParent[g], 1, PidWidth))]
          /\ toParent' = [toParent EXCEPT ![g] = SubSeq(@, PidWidth + 1, Len(@))]
          /\ trace' = [trace EXCEPT ![g] =
                            Append(@, ReadEvent(SubSeq(toParent[g], 1, PidWidth), TRUE))]
          /\ ParentStep(g, "p_read_pid", TRUE, fds[g])
       \/ /\ Len(toParent[g]) < PidWidth
          /\ ~PnewOpen(g)
          /\ toParent' = [toParent EXCEPT ![g] = <<>>]
          /\ trace' = [trace EXCEPT ![g] = Append(@, ReadEvent(toParent[g], FALSE))]
          /\ ParentStep(g, "p_read_pid", FALSE, fds[g])
          /\ UNCHANGED child_pid
    /\ UNCHANGED <<pid, env, listener, pidfn, svc, finish_future, result, factoryCalls>>
    /\ UNCHANGED <<flagVars, childVars, toChild, pidFile, nextPid>>
    /\ UNCHANGED faults

\* if let Some(pid_fn) = pid_fn { replace_file(pid_fn, format!("{}\n", child))? }
FR_PidFile(g) ==
    /\ pc[g] = "p_pidfile"
    /\ IF pidfn[g]
       THEN \E ok \in BOOLEAN :
              /\ Faulty(~ok)
              /\ pidFile' = IF ok THEN to_string(child_pid[g]) \o <<"\n">> ELSE pidFile
              /\ trace' = [trace EXCEPT ![g] = Append(@, StepEvent("pidfile", ok))]
              /\ ParentStep(g, "p_pidfile", ok, fds[g])
       ELSE /\ ParentStep(g, "p_pidfile", TRUE, fds[g])
            /\ UNCHANGED <<pidFile, trace, faults>>
    /\ UNCHANGED <<pid, env, listener, pidfn, svc, finish_future, result,
                   factoryCalls, child_pid>>
    /\ UNCHANGED <<flagVars, childVars, chanVars, nextPid>>

\* systemd_notify(SystemdNotify::MainPid(child)): an error is logged
FR_NotifyMainPid(g) ==
    /\ pc[g] = "p_mainpid"
    /\ \E ok \in BOOLEAN :
        /\ Faulty(~ok)
        /\ trace' = [trace EXCEPT ![g] =
                          Append(@, NotifyEvent("MainPid", child_pid[g], ok))]
    /\ ParentStep(g, "p_mainpid", TRUE, fds[g])
    /\ UNCHANGED <<pid, env, listener, pidfn, svc, finish_future, result,
                   factoryCalls, child_pid>>
    /\ UNCHANGED <<flagVars, childVars, chanVars, pidFile, nextPid>>

\* systemd_notify_barrier(u64::MAX): an error is logged
FR_Barrier(g) ==
    /\ pc[g] = "p_barrier"
    /\ \E ok \in BOOLEAN :
        /\ Faulty(~ok)
        /\ trace' = [trace EXCEPT ![g] = Append(@, BarrierEvent(ok))]
    /\ ParentStep(g, "p_barrier", TRUE, fds[g])
    /\ UNCHANGED <<pid, env, listener, pidfn, svc, finish_future, result,
                   factoryCalls, child_pid>>
    /\ UNCHANGED <<flagVars, childVars, chanVars, pidFile, nextPid>>

\* pold.write_all(&[1u8]): fails (EPIPE) when every copy of pnew is closed; the
\* error is logged.  Then Ok(()).
FR_WriteGo(g) ==
    /\ pc[g] = "p_write_go"
    /\ LET ok == PnewOpen(g)
       IN  /\ toChild' = [toChild EXCEPT ![g] = IF ok THEN Append(@, GoAheadByte) ELSE @]
           /\ trace' = [trace EXCEPT ![g] = Append(@, StepEvent("go", ok))]
    /\ ParentStep(g, "p_write_go", TRUE, fds[g])
    /\ UNCHANGED <<pid, env, listener, pidfn, svc, finish_future, result,
                   factoryCalls, child_pid>>
    /\ UNCHANGED <<flagVars, childVars, toParent, pidFile, nextPid>>
    /\ UNCHANGED faults

\* let _ = systemd_notify(SystemdNotify::Status("error during reload"))
CD_NotifyStatus(g) ==
    /\ pc[g] = "notify_status"
    /\ \E ok \in BOOLEAN :
        /\ Faulty(~ok)
        /\ trace' = [trace EXCEPT ![g] =
                          Append(@, NotifyEvent("Status", <<"error during reload">>, ok))]
    /\ pc' = [pc EXCEPT ![g] = "drain"]
    /\ UNCHANGED <<pid, env, fds, listener, pre_exec, pidfn, svc, finish_future,
                   result, fr_result, factoryCalls, child_pid>>
    /\ UNCHANGED <<flagVars, childVars, chanVars, pidFile, nextPid>>

\* The old process is killed from outside while it is inside the handshake
\* ("a vanished parent"): all its descriptors are closed.
InHandshake(g) == pc[g] \in {"p_drop_pnew", "p_read_pid", "p_pidfile", "p_mainpid",
                             "p_barrier", "p_write_go"}

OrchestratorKilled(g) ==
    /\ InHandshake(g)
    /\ Faulty(TRUE)
    /\ pc' = [pc EXCEPT ![g] = "killed"]
    /\ fds' = [fds EXCEPT ![g] = CloseAll]
    /\ listener' = [listener EXCEPT ![g] = -1]
    /\ pre_exec' = [pre_exec EXCEPT ![g] = <<>>]
    /\ UNCHANGED <<pid, env, pidfn, svc, finish_future, result, fr_result, trace,
                   factoryCalls, child_pid>>
    /\ UNCHANGED <<flagVars, childVars, chanVars, pidFile, nextPid>>

(* ----------------- fork_restart: the intermediate child --------------- *)

\* an intermediate child that leaves the match and goes on in fork_restart
\* when its fork failed
MidReturnsOnFailure(ok) == IF ok THEN "exited" ELSE "returned"

\* where the intermediate child is after the second fork, whatever its
\* outcome: unsafe { libc::_exit(-1) }
MidAfterFork2(ok) == "exited"

\* the second fork(): on success the grandchild starts with a copy of the
\* intermediate child's memory and descriptor table, and the intermediate
\* child drops (pold, pnew), logs and calls _exit(-1); on failure the error is
\* logged and the intermediate child calls _exit(-1).
M_Fork2(g) ==
    /\ mpc[g] = "fork2"
    /\ \E ok \in BOOLEAN :
        /\ Faulty(~ok)
        /\ IF ok
           THEN /\ mpc' = [mpc EXCEPT ![g] = MidAfterFork2(ok)]
                /\ gpc' = [gpc EXCEPT ![g] = "drop_pold"]
                /\ gpid' = [gpid EXCEPT ![g] = nextPid]
                /\ nextPid' = nextPid + 1
                /\ UNCHANGED gfds
           ELSE /\ mpc' = [mpc EXCEPT ![g] = MidAfterFork2(ok)]
                /\ gfds' = [gfds EXCEPT ![g] = CloseAll]
                /\ UNCHANGED <<gpc, gpid, nextPid>>
    /\ UNCHANGED <<orchVars, flagVars, mpid, genv, gpre_exec, store_calls, ok_byte, chanVars, pidFile>>

(* --------------------- fork_restart: the grandchild ------------------- *)

\* a grandchild that takes a failed read of the go-ahead for a go-ahead
HandshakeOkAnyway(readOk, byte) == TRUE

\* assert_eq!(ok[0], 1, ...) after a successful read_exact
HandshakeOk(readOk, byte) == readOk /\ byte = GoAheadByte

\* a grandchild that goes on although its read of the go-ahead failed
GrandchildNextIgnoreRead(at, ok) ==
    CASE at = "drop_pold" -> "send_pid"
      [] at = "send_pid" -> IF ok THEN "read_go" ELSE "exit"
      [] at = "read_go" -> "journal_out"
      [] at = "journal_out" -> IF ok THEN "journal_err" ELSE "exit"
      [] at = "journal_err" -> IF ok THEN "pre_exec" ELSE "exit"
      [] at = "pre_exec" -> IF ok THEN "setsid" ELSE "exit"
      [] at = "setsid" -> IF ok THEN "exec" ELSE "exit"
      [] at = "exec" -> IF ok THEN "execed" ELSE "exit"

\* a grandchild whose do_reexec goes on after a failed pre_exec
GrandchildNextIgnorePreExec(at, ok) ==
    CASE at = "drop_pold" -> "send_pid"
      [] at = "send_pid" -> IF ok THEN "read_go" ELSE "exit"
      [] at = "read_go" -> IF ok THEN "journal_out" ELSE "exit"
      [] at = "journal_out" -> IF ok THEN "journal_err" ELSE "exit"
      [] at = "journal_err" -> IF ok THEN "pre_exec" ELSE "exit"
      [] at = "pre_exec" -> "setsid"
      [] at = "setsid" -> IF ok THEN "exec" ELSE "exit"
      [] at = "exec" -> IF ok THEN "execed" ELSE "exit"

\* a grandchild that leaves fork_restart by its return when exec failed
GrandchildNextReturns(at, ok) ==
    CASE at = "drop_pold" -> "send_pid"
      [] at = "send_pid" -> IF ok THEN "read_go" ELSE "exit"
      [] at = "read_go" -> IF ok THEN "journal_out" ELSE "exit"
      [] at = "journal_out" -> IF ok THEN "journal_err" ELSE "exit"
      [] at = "journal_err" -> IF ok THEN "pre_exec" ELSE "exit"
      [] at = "pre_exec" -> IF ok THEN "setsid" ELSE "exit"
      [] at = "setsid" -> IF ok THEN "exec" ELSE "exit"
      [] at = "exec" -> IF ok THEN "execed" ELSE "returned"

\* a grandchild that does not wait for the go-ahead of the parent
GrandchildNextNoWait(at, ok) ==
    CASE at = "drop_pold" -> "send_pid"
      [] at = "send_pid" -> IF ok THEN "journal_out" ELSE "exit"
      [] at = "read_go" -> IF ok THEN "journal_out" ELSE "exit"
      [] at = "journal_out" -> IF ok THEN "journal_err" ELSE "exit"
      [] at = "journal_err" -> IF ok THEN "pre_exec" ELSE "exit"
      [] at = "pre_exec" -> IF ok THEN "setsid" ELSE "exit"
      [] at = "setsid" -> IF ok THEN "exec" ELSE "exit"
      [] at = "exec" -> IF ok THEN "execed" ELSE "exit"

\* The grandchild, step by step: where it goes from `at` when the step
\* succeeded (ok) or failed.  "exit" is libc::_exit(-1): directly, or after
\* catch_unwind returned an error or a caught panic.
GrandchildNext(at, ok) ==
    CASE at = "drop_pold" -> "send_pid"
      [] at = "send_pid" -> IF ok THEN "read_go" ELSE "exit"
      [] at = "read_go" -> IF ok THEN "journal_out" ELSE "exit"
      [] at = "journal_out" -> IF ok THEN "journal_err" ELSE "exit"
      [] at = "journal_err" -> IF ok THEN "pre_exec" ELSE "exit"
      [] at = "pre_exec" -> IF ok THEN "setsid" ELSE "exit"
      [] at = "setsid" -> IF ok THEN "exec" ELSE "exit"
      [] at = "exec" -> IF ok THEN "execed" ELSE "exit"

GrandchildStep(g, at, ok, t) ==
    LET next == GrandchildNext(at, ok)
    IN  IF next = "exit"
        THEN /\ gpc' = [gpc EXCEPT ![g] = "exited"]
             /\ gfds' = [gfds EXCEPT ![g] = CloseAll]
        ELSE /\ gpc' = [gpc EXCEPT ![g] = next]
             /\ gfds' = [gfds EXCEPT ![g] = t]

\* a grandchild that keeps its copy of the parent side endpoint
DropPoldKeeps(t) == t

\* std::mem::drop(pold) in the grandchild
DropPold(t) == CloseKind(t, "pold")

G_DropPold(g) ==
    /\ gpc[g] = "drop_pold"
    /\ GrandchildStep(g, "drop_pold", TRUE, DropPold(gfds[g]))
    /\ UNCHANGED <<orchVars, flagVars, mpc, mpid, gpid, genv, gpre_exec, store_calls, ok_byte,
                   chanVars, pidFile, nextPid>>
    /\ UNCHANGED faults

\* pnew.write_all(&pid.as_raw().to_ne_bytes()) with pid = Pid::this(): the
\* bytes may go out in several writes; a write fails (EPIPE) when every copy
\* of pold is closed, then the error is logged and the grandchild exits.
G_SendPid(g) ==
    /\ gpc[g] = "send_pid"
    /\ LET sent == Len(toParent[g])
           bytes == ToNeBytes(gpid[g])
       IN  IF PoldOpen(g)
           THEN /\ toParent' = [toParent EXCEPT ![g] = Append(@, bytes[sent + 1])]
                /\ IF sent + 1 = PidWidth
                   THEN GrandchildStep(g, "send_pid", TRUE, gfds[g])
                   ELSE UNCHANGED <<gpc, gfds>>
           ELSE /\ GrandchildStep(g, "send_pid", FALSE, gfds[g])
                /\ UNCHANGED toParent
    /\ UNCHANGED <<orchVars, flagVars, mpc, mpid, gpid, genv, gpre_exec, store_calls, ok_byte,
                   toChild, pidFile, nextPid>>
    /\ UNCHANGED faults

\* pnew.read_exact(&mut ok), the assertion on the byte, std::mem::drop(pnew).
\* The read fails when every copy of pold is closed and no byte is left.
G_ReadGo(g) ==
    /\ gpc[g] = "read_go"
    /\ \/ /\ toChild[g] # <<>>
          /\ ok_byte' = [ok_byte EXCEPT ![g] = Head(toChild[g])]
          /\ toChild' = [toChild EXCEPT ![g] = Tail(@)]
          /\ GrandchildStep(g, "read_go", HandshakeOk(TRUE, Head(toChild[g])),
                            CloseKind(gfds[g], "pnew"))
       \/ /\ toChild[g] = <<>>
          /\ ~PoldOpen(g)
          /\ GrandchildStep(g, "read_go", HandshakeOk(FALSE, 0), gfds[g])
          /\ UNCHANGED <<ok_byte, toChild>>
    /\ UNCHANGED <<orchVars, flagVars, mpc, mpid, gpid, genv, gpre_exec, store_calls,
                   toParent, pidFile, nextPid>>
    /\ UNCHANGED faults

\* sd_journal_stream_fd(ident, prio, 1) and dup2 onto `target` (1 or 2):
\* "ok" redirects the stream (the temporary descriptor is closed again and
\* `target` stays an open standard stream), "nofd" (no journal stream) is
\* logged, "dup2" (dup2 failed) leaves the closure with an error.
JournalOutcomes == {"ok", "nofd", "dup2"}

Journal(t, target, outcome) ==
    IF outcome = "ok" THEN [t EXCEPT ![target] = Stdio] ELSE t

G_JournalOut(g) ==
    /\ gpc[g] = "journal_out"
    /\ \E o \in JournalOutcomes :
        /\ Faulty(o # "ok")
        /\ GrandchildStep(g, "journal_out", o # "dup2", Journal(gfds[g], 1, o))
    /\ UNCHANGED <<orchVars, flagVars, mpc, mpid, gpid, genv, gpre_exec, store_calls, ok_byte,
                   chanVars, pidFile, nextPid>>

G_JournalErr(g) ==
    /\ gpc[g] = "journal_err"
    /\ \E o \in JournalOutcomes :
        /\ Faulty(o # "ok")
        /\ GrandchildStep(g, "journal_err", o # "dup2", Journal(gfds[g], 2, o))
    /\ UNCHANGED <<orchVars, flagVars, mpc, mpid, gpid, genv, gpre_exec, store_calls, ok_byte,
                   chanVars, pidFile, nextPid>>

\* do_reexec: self.pre_exec()?
G_PreExec(g) ==
    /\ gpc[g] = "pre_exec"
    /\ \E failAt \in 0..Len(gpre_exec[g]) :
        LET r == Reloader_pre_exec(gfds[g], genv[g], gpre_exec[g], failAt)
        IN  /\ Faulty(failAt # 0)
            /\ GrandchildStep(g, "pre_exec", r.ok, r.fds)
            /\ genv' = [genv EXCEPT ![g] = r.env]
            /\ store_calls' = [store_calls EXCEPT ![g] = r.calls]
    /\ gpre_exec' = [gpre_exec EXCEPT ![g] = <<>>]
    /\ UNCHANGED <<orchVars, flagVars, mpc, mpid, gpid, ok_byte, chanVars, pidFile,
                   nextPid>>

\* do_reexec: nix::unistd::setsid()?
G_Setsid(g) ==
    /\ gpc[g] = "setsid"
    /\ \E ok \in BOOLEAN :
        /\ Faulty(~ok)
        /\ GrandchildStep(g, "setsid", ok, gfds[g])
    /\ UNCHANGED <<orchVars, flagVars, mpc, mpid, gpid, genv, gpre_exec, store_calls, ok_byte,
                   chanVars, pidFile, nextPid>>

\* do_reexec: nix::unistd::execvp(&exe, &args)?  On success the process image
\* is replaced: generation g + 1 starts with the grandchild's PID and
\* environment and with the descriptors that are not close-on-exec.
G_Exec(g) ==
    /\ gpc[g] = "exec"
    /\ g < MaxGen
    /\ \E ok \in BOOLEAN :
        /\ Faulty(~ok)
        /\ GrandchildStep(g, "exec", ok, CloseAll)
        /\ IF ok
           THEN /\ pc' = [pc EXCEPT ![g + 1] = "new"]
                /\ pid' = [pid EXCEPT ![g + 1] = gpid[g]]
                /\ env' = [env EXCEPT ![g + 1] = genv[g]]
                /\ fds' = [fds EXCEPT ![g + 1] = ExecTable(gfds[g])]
                /\ pidfn' = [pidfn EXCEPT ![g + 1] = pidfn[g]]
           ELSE UNCHANGED <<pc, pid, env, fds, pidfn>>
    /\ UNCHANGED <<listener, pre_exec, svc, finish_future, result, fr_result, trace,
                   factoryCalls, child_pid>>
    /\ UNCHANGED <<flagVars, mpc, mpid, gpid, genv, gpre_exec, store_calls, ok_byte, chanVars,
                   pidFile, nextPid>>

\* The grandchild is killed from outside (or crashes) during the handshake;
\* from the journal step on, every step has a failing outcome that ends it.
G_Killed(g) ==
    /\ gpc[g] \in {"drop_pold", "send_pid", "read_go"}
    /\ Faulty(TRUE)
    /\ gpc' = [gpc EXCEPT ![g] = "exited"]
    /\ gfds' = [gfds EXCEPT ![g] = CloseAll]
    /\ UNCHANGED <<orchVars, flagVars, mpc, mpid, gpid, genv, gpre_exec, store_calls, ok_byte,
                   chanVars, pidFile, nextPid>>

(* ---------------------------- specification --------------------------- *)

Next ==
    \E g \in Gens :
        \/ SignalShutdown(g)
        \/ SignalReload(g)
        \/ ServiceFinish(g)
        \/ CD_ReloaderNew(g)
        \/ CD_Restore(g)
        \/ CD_CreateService(g)
        \/ CD_Select(g)
        \/ CD_CheckReload(g)
        \/ CD_NotifyReloading(g)
        \/ CD_Barrier(g)
        \/ FR_Socketpair(g)
        \/ FR_Fork1(g)
        \/ FR_ParentDropPnew(g)
        \/ FR_ParentReadPid(g)
        \/ FR_PidFile(g)
        \/ FR_NotifyMainPid(g)
        \/ FR_Barrier(g)
        \/ FR_WriteGo(g)
        \/ CD_NotifyStatus(g)
        \/ CD_Drain(g)
        \/ OrchestratorKilled(g)
        \/ M_Fork2(g)
        \/ G_DropPold(g)
        \/ G_SendPid(g)
        \/ G_ReadGo(g)
        \/ G_JournalOut(g)
        \/ G_JournalErr(g)
        \/ G_PreExec(g)
        \/ G_Setsid(g)
        \/ G_Exec(g)
        \/ G_Killed(g)

Spec == Init /\ [][Next]_vars

\* The parent of the first fork is a running process: it goes on with the
\* statement it is at, and its blocking read returns once the bytes are there
\* or every copy of the other endpoint is closed.
SpecParentRuns ==
    /\ Init
    /\ [][Next]_vars
    /\ \A g \in Gens : WF_vars(FR_ParentDropPnew(g)) /\ WF_vars(FR_ParentReadPid(g))

\* Reloader::pre_exec on its own: the grandchild of generation 1 is about to
\* materialize a registry of up to MaxEntries entries, as left by that many
\* calls of restore (each entry's closure owns a duplicate of its own, with
\* close-on-exec set).
RegistryFds == 3..MaxFd

Registries ==
    UNION {{reg \in [1..n -> [name : EnvNames, fd_opt : RegistryFds]] :
               \A i, j \in 1..n : i # j => reg[i].fd_opt # reg[j].fd_opt}
           : n \in 0..MaxEntries}

RegistryTable(reg) ==
    [fd \in FdNums |->
        IF \E i \in DOMAIN reg : reg[i].fd_opt = fd
        THEN ListenSock(fd, TRUE)
        ELSE EmptyTable[fd]]

InitPreExec ==
    \E reg \in Registries, old \in {Absent, Present(<<"3">>)} :
        /\ pc = [g \in Gens |-> IF g = 1 THEN "drain" ELSE "none"]
        /\ pid = [g \in Gens |-> IF g = 1 THEN FirstPid ELSE 0]
        /\ env = [g \in Gens |-> [n \in EnvNames |->
                    IF g = 1 /\ n = LISTEN_FD THEN old ELSE Absent]]
        /\ fds = [g \in Gens |-> IF g = 1 THEN EmptyTable ELSE CloseAll]
        /\ listener = [g \in Gens |-> -1]
        /\ pre_exec = [g \in Gens |-> <<>>]
        /\ pidfn = [g \in Gens |-> FALSE]
        /\ svc = [g \in Gens |-> IF g = 1 THEN "dropped" ELSE "none"]
        /\ finish_future = [g \in Gens |-> FALSE]
        /\ SHUTDOWN_REQUESTED = [g \in Gens |-> g = 1]
        /\ reload_request = [g \in Gens |-> g = 1]
        /\ result = [g \in Gens |-> "none"]
        /\ fr_result = [g \in Gens |-> IF g = 1 THEN "Ok" ELSE "none"]
        /\ trace = [g \in Gens |-> <<>>]
        /\ factoryCalls = [g \in Gens |-> 0]
        /\ child_pid = [g \in Gens |-> IF g = 1 THEN FirstPid + 2 ELSE 0]
        /\ mpc = [g \in Gens |-> IF g = 1 THEN "exited" ELSE "none"]
        /\ mpid = [g \in Gens |-> IF g = 1 THEN FirstPid + 1 ELSE 0]
        /\ gpc = [g \in Gens |-> IF g = 1 THEN "pre_exec" ELSE "none"]
        /\ gpid = [g \in Gens |-> IF g = 1 THEN FirstPid + 2 ELSE 0]
        /\ gfds = [g \in Gens |-> IF g = 1 THEN RegistryTable(reg) ELSE CloseAll]
        /\ genv = [g \in Gens |-> [n \in EnvNames |->
                     IF g = 1 /\ n = LISTEN_FD THEN old ELSE Absent]]
        /\ gpre_exec = [g \in Gens |-> IF g = 1 THEN reg ELSE <<>>]
        /\ store_calls = [g \in Gens |-> <<>>]
        /\ ok_byte = [g \in Gens |-> IF g = 1 THEN GoAheadByte ELSE -1]
        /\ toParent = [g \in Gens |-> <<>>]
        /\ toChild = [g \in Gens |-> <<>>]
        /\ pidFile = <<>>
        /\ faults = 0
        /\ nextPid = FirstPid + 3

NextPreExec == \E g \in Gens : G_PreExec(g)

SpecPreExec == InitPreExec /\ [][NextPreExec]_vars

\* The same program with one of its lines that do not steer it kept in the
\* trace: the request_shutdown call of the Left branch ...
NextShutdownLogged ==
    \E g \in Gens :
        \/ SignalShutdown(g)
        \/ SignalReload(g)
        \/ ServiceFinish(g)
        \/ CD_ReloaderNew(g)
        \/ CD_Restore(g)
        \/ CD_CreateService(g)
        \/ CD_SelectLogged(g)
        \/ CD_CheckReload(g)
        \/ CD_NotifyReloading(g)
        \/ CD_Barrier(g)
        \/ FR_Socketpair(g)
        \/ FR_Fork1(g)
        \/ FR_ParentDropPnew(g)
        \/ FR_ParentReadPid(g)
        \/ FR_PidFile(g)
        \/ FR_NotifyMainPid(g)
        \/ FR_Barrier(g)
        \/ FR_WriteGo(g)
        \/ CD_NotifyStatus(g)
        \/ CD_Drain(g)
        \/ OrchestratorKilled(g)
        \/ M_Fork2(g)
        \/ G_DropPold(g)
        \/ G_SendPid(g)
        \/ G_ReadGo(g)
        \/ G_JournalOut(g)
        \/ G_JournalErr(g)
        \/ G_PreExec(g)
        \/ G_Setsid(g)
        \/ G_Exec(g)
        \/ G_Killed(g)

SpecShutdownLogged == Init /\ [][NextShutdownLogged]_vars

\* ... or the wrapper's "server error" line.
NextErrorLogged ==
    \E g \in Gens :
        \/ SignalShutdown(g)
        \/ SignalReload(g)
        \/ ServiceFinishLogged(g)
        \/ CD_ReloaderNew(g)
        \/ CD_Restore(g)
        \/ CD_CreateService(g)
        \/ CD_Select(g)
        \/ CD_CheckReload(g)
        \/ CD_NotifyReloading(g)
        \/ CD_Barrier(g)
        \/ FR_Socketpair(g)
        \/ FR_Fork1(g)
        \/ FR_ParentDropPnew(g)
        \/ FR_ParentReadPid(g)
        \/ FR_PidFile(g)
        \/ FR_NotifyMainPid(g)
        \/ FR_Barrier(g)
        \/ FR_WriteGo(g)
        \/ CD_NotifyStatus(g)
        \/ CD_Drain(g)
        \/ OrchestratorKilled(g)
        \/ M_Fork2(g)
        \/ G_DropPold(g)
        \/ G_SendPid(g)
        \/ G_ReadGo(g)
        \/ G_JournalOut(g)
        \/ G_JournalErr(g)
        \/ G_PreExec(g)
        \/ G_Setsid(g)
        \/ G_Exec(g)
        \/ G_Killed(g)

SpecErrorLogged == Init /\ [][NextErrorLogged]_vars

\* ---------------------------------------------------------------------------
\* What the supervisor and the file system saw of one generation
\* ---------------------------------------------------------------------------

IsMainPid(e) == e.ev = "notify" /\ e.msg.key = "MAINPID"
IsBarrier(e) == e.ev = "barrier"
IsGo(e) == e.ev = "go"
IsReadPid(e) == e.ev = "read_pid"
IsPidFile(e) == e.ev = "pidfile"

MainPidAt(g) == {i \in DOMAIN trace[g] : IsMainPid(trace[g][i])}
GoAt(g) == {i \in DOMAIN trace[g] : IsGo(trace[g][i])}
ReadPidAt(g) == {i \in DOMAIN trace[g] : IsReadPid(trace[g][i])}
PidFileAt(g) == {i \in DOMAIN trace[g] : IsPidFile(trace[g][i])}
\* the barrier calls made after index i
BarrierAfter(g, i) == {k \in DOMAIN trace[g] : k > i /\ IsBarrier(trace[g][k])}

\* the grandchild has been released from its wait for the go-ahead
PastReadGo == {"journal_out", "journal_err", "pre_exec", "setsid", "exec", "execed"}

\* ---------------------------------------------------------------------------
\* C1
\* ---------------------------------------------------------------------------

\* C1 as stated: the parent writes the go-ahead byte only after both the
\* MainPid notification and the barrier call have completed successfully.
C1_GoAfterSuccessfulNotifyAndBarrier ==
    \A g \in Gens : \A i \in GoAt(g) :
        \E j \in MainPidAt(g) : \E k \in BarrierAfter(g, j) :
            /\ k < i
            /\ trace[g][j].ok
            /\ trace[g][k].ok

\* C1 amended: the parent writes the go-ahead byte, and the grandchild is
\* released, only after the MainPid notification and then the barrier call
\* have both been made and have returned, whether or not they succeeded.
C1_GoAfterNotifyAndBarrierReturned ==
    \A g \in Gens :
        /\ \A i \in GoAt(g) :
              \E j \in MainPidAt(g) : \E k \in BarrierAfter(g, j) : k < i
        /\ (toChild[g] # <<>> \/ gpc[g] \in PastReadGo) =>
              \E j \in MainPidAt(g) : BarrierAfter(g, j) # {}

\* C1 witness: a grandchild was released and went on to exec although the
\* MainPid notification had failed.
C1_ReleasedAfterFailedNotify ==
    \E g \in Gens :
        /\ gpc[g] = "execed"
        /\ \E i \in GoAt(g) : trace[g][i].ok
        /\ \E j \in MainPidAt(g) : ~trace[g][j].ok

\* ---------------------------------------------------------------------------
\* C2
\* ---------------------------------------------------------------------------

\* the parent's read of the new PID succeeded
PidRead(g) == \E i \in ReadPidAt(g) : trace[g][i].ok

\* C2 as stated: once fork_restart has returned in an execution in which the
\* parent read the PID, whatever the pid_file setting and the outcome of the
\* PID-file write, exactly one MainPid notification and exactly one barrier
\* call were made, in that order, and the go-ahead write came after both.
C2_OneNotifyOneBarrierBeforeGo ==
    \A g \in Gens :
        (fr_result[g] # "none" /\ PidRead(g)) =>
            /\ Cardinality(MainPidAt(g)) = 1
            /\ \A j \in MainPidAt(g) :
                  /\ Cardinality(BarrierAfter(g, j)) = 1
                  /\ \A k \in BarrierAfter(g, j) : \E i \in GoAt(g) : k < i

\* ---------------------------------------------------------------------------
\* C3
\* ---------------------------------------------------------------------------

\* bytes other than the go-ahead
OtherBytes == {0, 2, 255}

\* C3: a grandchild that has not read a byte equal to 1 from the channel (its
\* read failed, or has not happened) has not gone past the wait: it has not
\* redirected its streams, its registry is unconsumed, its environment is the
\* one it was forked with, it has not exec'd, and no next generation came of
\* it; a byte other than 1, had it been read, ends the grandchild.
C3_NoExecWithoutGoAhead ==
    \A g \in Gens :
        (mpc[g] # "none" /\ ok_byte[g] # GoAheadByte) =>
            /\ gpc[g] \notin PastReadGo
            /\ Len(gpre_exec[g]) = 1
            /\ genv[g] = env[g]
            /\ (g < MaxGen => pc[g + 1] = "none")
            /\ \A b \in OtherBytes :
                  GrandchildNext("read_go", HandshakeOk(TRUE, b)) = "exit"

\* C3 witness: the grandchild sent its whole PID, the parent read it and then
\* returned without writing the go-ahead, and the grandchild's read failed:
\* it exited with the environment untouched.
C3_ReadFailedAndExited ==
    \E g \in Gens :
        /\ gpc[g] = "exited"
        /\ PidRead(g)
        /\ fr_result[g] = "Err"
        /\ GoAt(g) = {}
        /\ ok_byte[g] # GoAheadByte
        /\ genv[g] = env[g]

\* ---------------------------------------------------------------------------
\* C4
\* ---------------------------------------------------------------------------

\* C4: when the channel closes before a complete PID arrived, the parent's
\* fork_restart returns Ok at once: the failed read is the last thing it did,
\* so no PID file was written, no MainPid notification and no barrier call
\* followed, and no go-ahead byte was written.
C4_ShortPidReturnsOk ==
    \A g \in Gens : \A i \in ReadPidAt(g) :
        ~trace[g][i].ok =>
            /\ Len(trace[g][i].msg.value) < PidWidth
            /\ fr_result[g] = "Ok"
            /\ i = Len(trace[g])
            /\ PidFileAt(g) = {}
            /\ MainPidAt(g) = {}
            /\ BarrierAfter(g, i) = {}
            /\ GoAt(g) = {}
            /\ toChild[g] = <<>>
            /\ child_pid[g] = 0

\* C4 witness: the grandchild died after sending part of its PID; the parent
\* read the partial PID, got the end of the stream, and returned Ok.
C4_PartialPidSeen ==
    \E g \in Gens : \E i \in ReadPidAt(g) :
        /\ ~trace[g][i].ok
        /\ Len(trace[g][i].msg.value) \in 1..(PidWidth - 1)
        /\ fr_result[g] = "Ok"
        /\ pc[g] \in {"drain", "done"}

\* ---------------------------------------------------------------------------
\* C5
\* ---------------------------------------------------------------------------

\* generation g's re-exec attempt is over and has produced no new image: no
\* descendant is left that could still exec
ReloadFailed(g) ==
    /\ fr_result[g] # "none"
    /\ mpc[g] \in {"none", "exited"}
    /\ gpc[g] \in {"none", "exited"}

\* C5 as stated: after a reload request whose re-exec attempt failed while the
\* service body was still running, the orchestrator of the old process does
\* not go on to drain and return, and some generation still holds the
\* listener and runs its service body.
C5_FailedReloadKeepsServing ==
    \A g \in Gens :
        (ReloadFailed(g) /\ finish_future[g]) =>
            /\ pc[g] \notin {"drain", "done"}
            /\ \E h \in Gens : listener[h] # -1 /\ svc[h] = "running"

\* ---------------------------------------------------------------------------
\* C6
\* ---------------------------------------------------------------------------

\* C6: once the service body has been constructed, create_daemon never
\* returns an error, whatever fails in the reload sequence: when it returns,
\* it returns Ok.
C6_ReloadFailuresNotFatal ==
    \A g \in Gens :
        svc[g] # "none" =>
            /\ pc[g] # "failed"
            /\ result[g] # "Err"
            /\ pc[g] = "done" => result[g] = "Ok"

\* C6 witness: the PID-file write failed, fork_restart returned the error,
\* and create_daemon returned Ok.
C6_ReturnedOkAfterReloadError ==
    \E g \in Gens :
        /\ pc[g] = "done"
        /\ result[g] = "Ok"
        /\ fr_result[g] = "Err"
        /\ \E i \in PidFileAt(g) : ~trace[g][i].ok

\* ---------------------------------------------------------------------------
\* C7 and C8
\* ---------------------------------------------------------------------------

EventsNamed(g, name) == {i \in DOMAIN trace[g] : trace[g][i].ev = name}
Succeeded(g, name) == \E i \in EventsNamed(g, name) : trace[g][i].ok
Failed(g, name) == \E i \in EventsNamed(g, name) : ~trace[g][i].ok

\* Reloader::restore has returned in generation g
Restored(g) == EventsNamed(g, "restore") \cup EventsNamed(g, "factory") # {}

\* the listening sockets generation g created itself
FreshSockets(g) == {fd \in FdNums : fds[g][fd].kind = "listen" /\ fds[g][fd].id = g}

\* C7: when the variable is present (text or not unicode), restore never calls
\* the factory and creates no socket; an unparseable value, a handle that
\* cannot be adopted and a value that is not unicode make it return an error,
\* which create_daemon returns.
C7_PresentVariableNeverCreates ==
    \A g \in Gens :
        (Restored(g) /\ env[g][LISTEN_FD].state # "absent") =>
            /\ factoryCalls[g] = 0
            /\ EventsNamed(g, "factory") = {}
            /\ FreshSockets(g) = {}
            /\ Cardinality(EventsNamed(g, "restore")) = 1
            /\ (\/ env[g][LISTEN_FD].state = "notunicode"
                \/ ~ParseU32(env[g][LISTEN_FD].str).ok
                \/ Failed(g, "restore")) =>
                    /\ pc[g] = "failed"
                    /\ result[g] = "Err"
                    /\ listener[g] = -1
            /\ pc[g] = "create_service" =>
                    /\ listener[g] = AsRawFd(ParseU32(env[g][LISTEN_FD].str))
                    /\ IsOpen(fds[g], listener[g])

\* C7 witness: the variable named a descriptor that is not open; restore
\* failed, the factory was not called, create_daemon returned the error.
C7_BadHandleFailed ==
    \E g \in Gens :
        /\ env[g][LISTEN_FD].state = "present"
        /\ ParseU32(env[g][LISTEN_FD].str).ok
        /\ Failed(g, "restore")
        /\ pc[g] = "failed"
        /\ factoryCalls[g] = 0

\* C8 as stated: when the variable is absent, restore calls the factory
\* exactly once and, if the factory succeeded, an entry was appended (the
\* store function was obtained) and the created resource was returned.
C8_FactorySuccessRegisters ==
    \A g \in Gens :
        (Restored(g) /\ env[g][LISTEN_FD].state = "absent") =>
            /\ factoryCalls[g] = 1
            /\ Succeeded(g, "factory") =>
                  /\ Succeeded(g, "get_store_func")
                  /\ (pc[g] = "failed" => EventsNamed(g, "create_service") # {})

\* C8 amended: when the variable is absent, restore calls the factory exactly
\* once; if the factory succeeded and the store function for the created
\* resource could be obtained (its descriptor could be duplicated), restore
\* appended exactly one entry under that name, holding a duplicate of the
\* created socket, and returned the created resource; if the store function
\* could not be obtained, restore returned an error, the registry has no
\* entry and the created socket is closed.
C8_FactoryAndStoreFuncRegister ==
    \A g \in Gens :
        (Restored(g) /\ env[g][LISTEN_FD].state = "absent") =>
            /\ factoryCalls[g] = 1
            /\ Cardinality(EventsNamed(g, "factory")) = 1
            /\ EventsNamed(g, "restore") = {}
            /\ (Succeeded(g, "factory") /\ Succeeded(g, "get_store_func")) =>
                  (pc[g] = "failed" => EventsNamed(g, "create_service") # {})
            /\ pc[g] = "create_service" =>
                  /\ Succeeded(g, "factory") /\ Succeeded(g, "get_store_func")
                  /\ Len(pre_exec[g]) = 1
                  /\ pre_exec[g][1].name = LISTEN_FD
                  /\ fds[g][listener[g]] = ListenSock(g, TRUE)
                  /\ pre_exec[g][1].fd_opt # listener[g]
                  /\ fds[g][pre_exec[g][1].fd_opt] = ListenSock(g, TRUE)
            /\ Failed(g, "get_store_func") =>
                  /\ pc[g] = "failed"
                  /\ pre_exec[g] = <<>>
                  /\ FreshSockets(g) = {}

\* C8 witness: a fresh start whose factory and store function succeeded: one
\* entry, and the listener returned.
C8_FreshListenerRegistered ==
    \E g \in Gens :
        /\ env[g][LISTEN_FD].state = "absent"
        /\ pc[g] = "create_service"
        /\ factoryCalls[g] = 1
        /\ Len(pre_exec[g]) = 1
        /\ listener[g] # -1

\* ---------------------------------------------------------------------------
\* C9 and C10
\* ---------------------------------------------------------------------------

\* the listening socket the first generation serves: the one it was handed
\* (id 0) or the one it bound itself (id 1)
OriginSocket == IF env[1][LISTEN_FD].state = "absent" THEN 1 ELSE 0

\* the descriptor a variable's value names
TokenFd(v) == AsRawFd(ParseU32(v.str))

\* what restoring the listener from generation g's variable gives, when
\* nothing but the token and the descriptor table decides the outcome
RestoredFromToken(g) == Listener_restore(fds[g], env[g][LISTEN_FD].str, TRUE)

IsOriginListener(t, fd) ==
    /\ IsOpen(t, fd)
    /\ t[fd].kind = "listen"
    /\ t[fd].id = OriginSocket

\* C9: in a generation started by a reload, the variable holds the token the
\* previous generation's store function produced; restoring it yields an open
\* listening descriptor on the same socket the first listener was bound to,
\* which is the socket the previous generation's listener (while it is open)
\* refers to, and the restored listener the service gets is that descriptor.
C9_RestoredListenerIsSameSocket ==
    \A g \in Gens :
        (g > 1 /\ pc[g] # "none") =>
            /\ env[g][LISTEN_FD].state = "present"
            /\ ParseU32(env[g][LISTEN_FD].str).ok
            /\ pc[g] \in {"new", "restore"} =>
                  /\ RestoredFromToken(g).ok
                  /\ RestoredFromToken(g).fd = TokenFd(env[g][LISTEN_FD])
                  /\ IsOriginListener(RestoredFromToken(g).fds, RestoredFromToken(g).fd)
            /\ pc[g] \in {"create_service", "select"} =>
                  /\ listener[g] = TokenFd(env[g][LISTEN_FD])
                  /\ IsOriginListener(fds[g], listener[g])
                  /\ factoryCalls[g] = 0
            /\ listener[g - 1] # -1 => IsOriginListener(fds[g - 1], listener[g - 1])

\* C9 witness: the second generation serves on the listener it restored,
\* while the first generation still holds the original listener.
C9_BothGenerationsHoldSocket ==
    \E g \in Gens :
        /\ g > 1
        /\ pc[g] = "select"
        /\ svc[g] = "running"
        /\ IsOriginListener(fds[g], listener[g])
        /\ listener[g - 1] # -1
        /\ IsOriginListener(fds[g - 1], listener[g - 1])

\* generation g's grandchild has materialized the registry and not yet exec'd
Materialized(g) == gpc[g] \in {"setsid", "exec"}

\* C10 as stated: after a fresh start, the materialized environment holds
\* exactly one resource variable, whose value parses back to the numeric
\* handle of the listener that was registered.
C10_TokenIsListenerHandle ==
    \A g \in Gens :
        (env[g][LISTEN_FD].state = "absent" /\ Materialized(g) /\ listener[g] # -1) =>
            /\ Cardinality({n \in EnvNames : genv[g][n].state = "present"}) = 1
            /\ ParseU32(genv[g][LISTEN_FD].str).ok
            /\ TokenFd(genv[g][LISTEN_FD]) = listener[g]

\* C10 amended: after a fresh start, the materialized environment holds
\* exactly one resource variable; its value is the decimal form of, and
\* parses back to, the handle of the duplicate the registry's entry owns: a
\* descriptor other than the listener's own, open on the same socket, with
\* close-on-exec cleared.
C10_TokenIsDuplicateHandle ==
    \A g \in Gens :
        env[g][LISTEN_FD].state = "absent" =>
            /\ gpc[g] = "pre_exec" =>
                  /\ Len(gpre_exec[g]) = 1
                  /\ Reloader_pre_exec(gfds[g], genv[g], gpre_exec[g], 0).ok
                  /\ TokenFd(Reloader_pre_exec(gfds[g], genv[g], gpre_exec[g], 0)
                                .env[LISTEN_FD]) = gpre_exec[g][1].fd_opt
            /\ Materialized(g) =>
                  /\ Cardinality({n \in EnvNames : genv[g][n].state = "present"}) = 1
                  /\ ParseU32(genv[g][LISTEN_FD].str).ok
                  /\ genv[g][LISTEN_FD].str = to_string(TokenFd(genv[g][LISTEN_FD]))
                  /\ gfds[g][TokenFd(genv[g][LISTEN_FD])] = ListenSock(g, FALSE)
                  /\ listener[g] # -1 =>
                        /\ TokenFd(genv[g][LISTEN_FD]) # listener[g]
                        /\ fds[g][listener[g]] = ListenSock(g, TRUE)
                        /\ gfds[g][listener[g]] = ListenSock(g, TRUE)

\* C10 witness: a freshly started generation's grandchild has materialized the
\* registry while the old process still holds the registered listener.
C10_MaterializedAfterFreshStart ==
    \E g \in Gens :
        /\ env[g][LISTEN_FD].state = "absent"
        /\ Materialized(g)
        /\ genv[g][LISTEN_FD].state = "present"
        /\ listener[g] # -1

\* ---------------------------------------------------------------------------
\* C11
\* ---------------------------------------------------------------------------

AllDigits(s) == s # <<>> /\ \A i \in DOMAIN s : IsDigit(s[i])

\* the text is a non-negative decimal integer that fits a raw handle (i32)
InHandleRange(s) == AllDigits(s) /\ ParseU32(s).ok /\ ParseU32(s).hi < 32768

\* C11 as stated: restoring from a value that is not a non-negative decimal
\* integer within the signed 32-bit range fails with a parse error, and no
\* descriptor is touched.
C11_OutOfRangeIsParseError ==
    \A g \in Gens : \A i \in EventsNamed(g, "restore") :
        (env[g][LISTEN_FD].state = "present" /\ ~InHandleRange(env[g][LISTEN_FD].str)) =>
            /\ ~trace[g][i].ok
            /\ trace[g][i].msg.key = "parse"
            /\ pc[g] = "failed"

\* ---------------------------------------------------------------------------
\* C12
\* ---------------------------------------------------------------------------

\* C12: the descriptor a token names has close-on-exec cleared from the
\* materialization to the exec of the grandchild and is still open, with the
\* flag cleared, when the new image starts; once restore has returned the
\* listener in the new image, the flag is set on that descriptor and stays
\* set for as long as the listener is open.
C12_CloexecClearedOnlyForHandoff ==
    \A g \in Gens :
        /\ Materialized(g) =>
              /\ IsOpen(gfds[g], TokenFd(genv[g][LISTEN_FD]))
              /\ ~gfds[g][TokenFd(genv[g][LISTEN_FD])].cloexec
        /\ (g > 1 /\ pc[g] \in {"new", "restore"}) =>
              /\ IsOpen(fds[g], TokenFd(env[g][LISTEN_FD]))
              /\ ~fds[g][TokenFd(env[g][LISTEN_FD])].cloexec
        /\ (env[g][LISTEN_FD].state = "present" /\ listener[g] # -1) =>
              /\ listener[g] = TokenFd(env[g][LISTEN_FD])
              /\ fds[g][listener[g]].kind = "listen"
              /\ fds[g][listener[g]].cloexec

\* C12 witness: a generation started by a reload serves on the listener it
\* restored from the token, and the flag is set on it again.
C12_FlagSetAgainAfterRestore ==
    \E g \in Gens :
        /\ g > 1
        /\ gpc[g - 1] = "execed"
        /\ pc[g] = "select"
        /\ listener[g] = TokenFd(env[g][LISTEN_FD])
        /\ fds[g][listener[g]].cloexec

\* ---------------------------------------------------------------------------
\* C13
\* ---------------------------------------------------------------------------

\* the select resolved with the finished service body (Either::Left)
LeftTaken(g) == svc[g] = "dropped" /\ ~finish_future[g]

\* ... and create_daemon itself had to set the shutdown flag: no signal had
\* been raised by then
LeftUnsignalled(g) == EventsNamed(g, "request_shutdown") # {}

ReloadingAt(g) ==
    {i \in DOMAIN trace[g] : trace[g][i].ev = "notify" /\ trace[g][i].msg.key = "RELOADING"}

\* no part of the reload sequence has happened in generation g
NoReload(g) ==
    /\ ReloadingAt(g) = {}
    /\ {i \in DOMAIN trace[g] : IsBarrier(trace[g][i])} = {}
    /\ mpc[g] = "none"
    /\ gpc[g] = "none"
    /\ fr_result[g] = "none"
    /\ pc[g] \in {"check_reload", "drain", "done"}

C14_ReturnsOnlyAfterDrain ==
    \A g \in Gens :
        finish_future[g] =>
            /\ svc[g] \in {"running", "finished"} => pc[g] # "done"
            /\ pc[g] = "done" => (svc[g] = "dropped" /\ result[g] = "Ok")
            /\ (pc[g] \in {"drain", "done"} /\ ReloadingAt(g) # {}) =>
                  /\ fr_result[g] # "none"
                  /\ HoldsKind(fds[g], "pold", g) = FALSE
            /\ pc[g] \in {"notify_reloading", "barrier", "socketpair", "fork1",
                          "p_drop_pnew", "p_read_pid", "p_pidfile", "p_mainpid",
                          "p_barrier", "p_write_go", "notify_status"} =>
                  svc[g] \in {"running", "finished"}

\* C14 witness: a reload was handled (fork_restart returned), then the
\* retained service body ran to completion and create_daemon returned.
C14_DrainedAfterReload ==
    \E g \in Gens :
        /\ finish_future[g]
        /\ pc[g] = "done"
        /\ svc[g] = "dropped"
        /\ fr_result[g] = "Ok"
        /\ GoAt(g) # {}

\* ---------------------------------------------------------------------------
\* C15
\* ---------------------------------------------------------------------------

\* create_daemon is inside fork_restart, or has been
ReexecStarted(g) ==
    \/ pc[g] \in {"socketpair", "fork1", "p_drop_pnew", "p_read_pid", "p_pidfile",
                  "p_mainpid", "p_barrier", "p_write_go", "killed"}
    \/ fr_result[g] # "none"
    \/ mpc[g] # "none"

\* C15: the re-exec protocol is started only on a reload request and only
\* after the Reloading notification and then a barrier call have been made
\* (whatever their results), before any step of the protocol; on a plain
\* shutdown there is no Reloading notification, no barrier call and no fork.
C15_ReloadingBarrierThenReexec ==
    \A g \in Gens :
        /\ ReexecStarted(g) =>
              /\ reload_request[g]
              /\ Cardinality(ReloadingAt(g)) = 1
              /\ \A i \in ReloadingAt(g) :
                    /\ i < Len(trace[g])
                    /\ IsBarrier(trace[g][i + 1])
                    /\ \A k \in 1..(i - 1) :
                          trace[g][k].ev \in {"factory", "restore", "get_store_func",
                                              "create_service", "request_shutdown"}
        /\ \A i \in DOMAIN trace[g] :
              (IsBarrier(trace[g][i]) /\ ReloadingAt(g) # {}) => \E j \in ReloadingAt(g) : j < i
        /\ (pc[g] \in {"drain", "done"} /\ ~reload_request[g]) => NoReload(g)

\* C15 witness: a reload request was handled: Reloading notification, barrier,
\* then the forks.
C15_ReloadSequenceRan ==
    \E g \in Gens :
        /\ reload_request[g]
        /\ gpc[g] # "none"
        /\ \E i \in ReloadingAt(g) : IsBarrier(trace[g][i + 1])

\* ---------------------------------------------------------------------------
\* C16
\* ---------------------------------------------------------------------------

\* acquiring the listener or constructing the service body failed
StartupFailed(g) ==
    \/ Failed(g, "restore")
    \/ Failed(g, "factory")
    \/ Failed(g, "get_store_func")
    \/ Failed(g, "create_service")

\* C16: when the restoration, the factory, the store function or the service
\* constructor fails, create_daemon returns the error at once: that failure is
\* the last thing it did, the service body never ran, the race was not
\* entered, and there is no supervisor notification, no barrier call, no
\* fork and no change of the environment.
C16_StartupErrorsAreFatal ==
    \A g \in Gens :
        StartupFailed(g) =>
            /\ pc[g] = "failed"
            /\ result[g] = "Err"
            /\ ~trace[g][Len(trace[g])].ok
            /\ \A i \in DOMAIN trace[g] :
                  trace[g][i].ev \in {"factory", "restore", "get_store_func",
                                      "create_service"}
            /\ svc[g] = "none"
            /\ ~finish_future[g]
            /\ ~SHUTDOWN_REQUESTED[g]
            /\ listener[g] = -1
            /\ pre_exec[g] = <<>>
            /\ mpc[g] = "none" /\ gpc[g] = "none" /\ fr_result[g] = "none"
            /\ genv[g][LISTEN_FD].state = "absent"
            /\ g < MaxGen => pc[g + 1] = "none"

\* C16 witness: the listener was acquired and registered, then the service
\* constructor failed and create_daemon returned the error.
C16_ConstructorFailed ==
    \E g \in Gens :
        /\ Succeeded(g, "get_store_func")
        /\ Failed(g, "create_service")
        /\ pc[g] = "failed"
        /\ result[g] = "Err"

\* ---------------------------------------------------------------------------
\* C17
\* ---------------------------------------------------------------------------

\* C17: in every step of every process, a shutdown flag that is set stays
\* set.
C17_FlagNeverCleared ==
    [][\A g \in Gens : SHUTDOWN_REQUESTED[g] => SHUTDOWN_REQUESTED'[g]]_vars

\* C17 witness: the flag was set by a signal and is still set when
\* create_daemon has gone through the reload and the drain and has returned.
C17_FlagSetAtReturn ==
    \E g \in Gens :
        /\ SHUTDOWN_REQUESTED[g]
        /\ finish_future[g]
        /\ fr_result[g] # "none"
        /\ pc[g] = "done"

\* ---------------------------------------------------------------------------
\* C18
\* ---------------------------------------------------------------------------

\* the positions of create_daemon (with fork_restart's parent branch inlined)
\* in the order the code reaches them
PcOrder ==
    <<"none", "new", "restore", "create_service", "select", "check_reload",
      "notify_reloading", "barrier", "socketpair", "fork1", "p_drop_pnew",
      "p_read_pid", "p_pidfile", "p_mainpid", "p_barrier", "p_write_go",
      "notify_status", "drain", "done", "failed", "killed">>

PcRank(p) == CHOOSE i \in DOMAIN PcOrder : PcOrder[i] = p

\* C18: per generation the registry is consumed at most once.  create_daemon
\* never comes back to a position it has left, so it attempts the first fork
\* at most once, and when it does no child of this generation exists yet; the
\* environment of the orchestrator itself is never written, the grandchild's
\* is written only by its single pre_exec; pre_exec invokes no store function
\* twice; and a registry only grows inside restore: the grandchild's copy is
\* taken at the fork and emptied by pre_exec, the parent's is dropped when
\* fork_restart returns, and neither gets an entry back.
C18_RegistryConsumedOnce ==
    [][\A g \in Gens :
          /\ pc'[g] # pc[g] => PcRank(pc'[g]) > PcRank(pc[g])
          /\ (pc[g] = "fork1" /\ pc'[g] # "fork1") =>
                /\ mpc[g] = "none" /\ gpc[g] = "none"
                /\ fr_result[g] = "none"
                /\ store_calls[g] = <<>>
          /\ env'[g] # env[g] => pc[g] = "none"
          /\ genv'[g] # genv[g] =>
                \/ pc[g] = "fork1" /\ genv'[g] = env[g]
                \/ gpc[g] = "pre_exec" /\ store_calls[g] = <<>>
          /\ store_calls'[g] # store_calls[g] =>
                /\ gpc[g] = "pre_exec" /\ gpc'[g] # "pre_exec"
                /\ store_calls[g] = <<>>
                /\ gpre_exec'[g] = <<>>
          /\ \A k, l \in DOMAIN store_calls'[g] :
                store_calls'[g][k].entry = store_calls'[g][l].entry => k = l
          /\ Len(pre_exec'[g]) > Len(pre_exec[g]) => pc[g] = "restore"
          /\ fr_result[g] # "none" => pre_exec'[g] = <<>>
          /\ gpre_exec'[g] # gpre_exec[g] =>
                \/ /\ pc[g] = "fork1"
                   /\ gpre_exec[g] = <<>>
                   /\ gpre_exec'[g] = pre_exec[g]
                \/ /\ gpc[g] = "pre_exec"
                   /\ gpre_exec'[g] = <<>>]_vars

\* C18 witness: the one fork of a generation has happened, its grandchild has
\* materialized the registry (one store function, invoked once) and has
\* exec'd, and the parent has returned with its own copy dropped.
C18_ConsumedAndReturned ==
    \E g \in Gens :
        /\ gpc[g] = "execed"
        /\ store_calls[g] = <<[entry |-> 1, ok |-> TRUE]>>
        /\ gpre_exec[g] = <<>>
        /\ pre_exec[g] = <<>>
        /\ fr_result[g] = "Ok"
        /\ pc[g] = "done"

\* ---------------------------------------------------------------------------
\* C19
\* ---------------------------------------------------------------------------

\* the value pre_exec leaves in variable n: the token of the last entry of
\* that name whose store function succeeded, else the value e had
VarAfter(e, reg, calls, n) ==
    LET set == {k \in DOMAIN calls : calls[k].ok /\ reg[k].name = n}
    IN  IF set = {} THEN e[n]
        ELSE Present(to_string(reg[CHOOSE k \in set : \A l \in set : l <= k].fd_opt))

AllStored(reg, calls) ==
    Len(calls) = Len(reg) /\ \A k \in DOMAIN calls : calls[k].ok

\* C19: Reloader::pre_exec invokes the store functions in insertion order,
\* each entry's once, and sets the variable of the entry's name to the token
\* produced; when all succeed every registered name is set and the grandchild
\* goes on to setsid; when one fails no later store function is invoked, the
\* failed entry's variable is not set by it, and the error ends do_reexec (the
\* grandchild exits).
C19_PreExecInOrder ==
    [][\A g \in Gens :
          (gpc[g] = "pre_exec" /\ gpc'[g] # "pre_exec") =>
              /\ Len(store_calls'[g]) <= Len(gpre_exec[g])
              /\ \A k \in DOMAIN store_calls'[g] :
                    /\ store_calls'[g][k].entry = k
                    /\ ~store_calls'[g][k].ok => k = Len(store_calls'[g])
              /\ \A n \in EnvNames :
                    genv'[g][n] = VarAfter(genv[g], gpre_exec[g], store_calls'[g], n)
              /\ gpc'[g] = "setsid" <=> AllStored(gpre_exec[g], store_calls'[g])
              /\ gpc'[g] = "setsid" =>
                    \A i \in DOMAIN gpre_exec[g] :
                        genv'[g][gpre_exec[g][i].name].state = "present"
              /\ gpc'[g] # "setsid" =>
                    /\ gpc'[g] = "exited"
                    /\ store_calls'[g] # <<>>
                    /\ ~store_calls'[g][Len(store_calls'[g])].ok]_vars

\* C19 witness: pre_exec has invoked the store functions of MaxEntries
\* entries, first to last, under two names, and both variables are set.
C19_AllEntriesStored ==
    \E g \in Gens :
        /\ gpc[g] = "setsid"
        /\ Len(store_calls[g]) = MaxEntries
        /\ \A k \in DOMAIN store_calls[g] : store_calls[g][k] = [entry |-> k, ok |-> TRUE]
        /\ \A n \in EnvNames : genv[g][n].state = "present"
        /\ genv[g][LISTEN_FD] # genv[g][SECOND_FD]

\* ---------------------------------------------------------------------------
\* C20
\* ---------------------------------------------------------------------------

\* the service body of generation g ended with an error (the wrapper logged it)
ServiceErrored(g) == EventsNamed(g, "server_error") # {}

\* C20: an error of the service body never leaves create_daemon.  The wrapped
\* service future never resolves to an error; once the service body has ended
\* with an error it counts as completed (finished, then dropped by the Left
\* branch or by the drain), create_daemon goes on exactly as after a normal
\* completion, never fails, and when it returns it returns Ok.
C20_ServiceErrorNeverPropagates ==
    \A g \in Gens :
        /\ svc[g] \in {"none", "running", "finished", "dropped"}
        /\ ServiceErrored(g) =>
              /\ svc[g] \in {"finished", "dropped"}
              /\ svc[g] = "dropped" => pc[g] \notin {"select", "failed"}
              /\ pc[g] # "failed"
              /\ result[g] # "Err"
              /\ pc[g] = "done" => (result[g] = "Ok" /\ svc[g] = "dropped")

\* C20 witness: the service body ended with an error, the select resolved
\* with it (Left) and create_daemon has returned Ok.
C20_ErrorLoggedReturnedOk ==
    \E g \in Gens :
        /\ ServiceErrored(g)
        /\ LeftTaken(g)
        /\ pc[g] = "done"
        /\ result[g] = "Ok"

\* ---------------------------------------------------------------------------
\* C21
\* ---------------------------------------------------------------------------

StatusAt(g) ==
    {i \in DOMAIN trace[g] : trace[g][i].ev = "notify" /\ trace[g][i].msg.key = "STATUS"}

\* fork_restart has returned and create_daemon is past its error handling
PastReload(g) == fr_result[g] # "none" /\ pc[g] \in {"drain", "done"}

\* the reload step went wrong in one of the four ways: no first child (failed
\* socketpair or failed first fork), failed PID read, failed PID-file write
ReloadStepFailed(g) ==
    \/ mpc[g] = "none"
    \/ Failed(g, "read_pid")
    \/ Failed(g, "pidfile")

\* C21 as stated: after any error in the reload step (failed first fork,
\* failed handshake, failed PID-file write, failed socketpair) a Status
\* notification has been made once the orchestrator is at the drain.
C21_EveryReloadErrorNotified ==
    \A g \in Gens :
        (PastReload(g) /\ ReloadStepFailed(g)) => StatusAt(g) # {}

\* C21 amended: a Status notification is made exactly when fork_restart
\* returned an error, which it does for a failed socketpair and a failed
\* PID-file write; a failed first fork and a failed PID read make it return
\* success and no Status notification follows.  In every case the
\* orchestrator goes on to the drain and never fails.
C21_StatusIffForkRestartErr ==
    \A g \in Gens :
        /\ fr_result[g] # "none" => pc[g] \in {"notify_status", "drain", "done"}
        /\ pc[g] = "notify_status" => fr_result[g] = "Err"
        /\ StatusAt(g) # {} => PastReload(g) /\ Cardinality(StatusAt(g)) = 1
        /\ PastReload(g) =>
              /\ StatusAt(g) # {} <=> fr_result[g] = "Err"
              /\ fr_result[g] = "Err" =>
                    \/ mpc[g] = "none" /\ ReadPidAt(g) = {}
                    \/ Failed(g, "pidfile")
              /\ Failed(g, "pidfile") => fr_result[g] = "Err"
              /\ Failed(g, "read_pid") => fr_result[g] = "Ok"

\* C21 witness: the PID-file write failed, fork_restart returned the error,
\* the Status notification was made and create_daemon went through the drain
\* and returned Ok.
C21_StatusSentThenDrained ==
    \E g \in Gens :
        /\ Failed(g, "pidfile")
        /\ fr_result[g] = "Err"
        /\ StatusAt(g) # {}
        /\ pc[g] = "done"
        /\ result[g] = "Ok"

\* ---------------------------------------------------------------------------
\* C22
\* ---------------------------------------------------------------------------

\* C22: the intermediate child does one thing, the second fork, and is gone
\* after it whatever the outcome: its step leaves the orchestrator's position
\* and results, both directions of the channel and every environment alone;
\* once exited it stays exited; and a new generation only ever starts by the
\* exec of a grandchild, with the grandchild's PID, never the intermediate
\* child's.
C22_IntermediateChildOnlyExits ==
    [][\A g \in Gens :
          /\ mpc'[g] \in {"none", "fork2", "exited"}
          /\ mpc[g] = "exited" => mpc'[g] = "exited"
          /\ (mpc[g] = "fork2" /\ mpc'[g] # "fork2") =>
                /\ mpc'[g] = "exited"
                /\ pc' = pc /\ fr_result' = fr_result /\ result' = result
                /\ toParent' = toParent /\ toChild' = toChild
                /\ env' = env /\ genv' = genv /\ store_calls' = store_calls
                /\ gpc[g] = "none" /\ gpc'[g] \in {"none", "drop_pold"}
          /\ (g < MaxGen /\ pc[g + 1] = "none" /\ pc'[g + 1] # "none") =>
                /\ gpc[g] = "exec" /\ gpc'[g] = "execed"
                /\ mpc[g] = "exited"
                /\ pid'[g + 1] = gpid[g]
                /\ gpid[g] # mpid[g]]_vars

\* C22 witness: the intermediate child has exited after a successful second
\* fork and the grandchild, not it, has exec'd the next generation.
C22_GrandchildExecedAfterMidExit ==
    \E g \in Gens :
        /\ g < MaxGen
        /\ mpc[g] = "exited"
        /\ gpc[g] = "execed"
        /\ pid[g + 1] = gpid[g]
        /\ pid[g + 1] # mpid[g]

\* ---------------------------------------------------------------------------
\* C23
\* ---------------------------------------------------------------------------

\* the positions of the grandchild in the order the code reaches them
GOrder ==
    <<"drop_pold", "send_pid", "read_go", "journal_out", "journal_err",
      "pre_exec", "setsid", "exec", "execed">>

GRank(p) == CHOOSE i \in DOMAIN GOrder : GOrder[i] = p

\* C23: the grandchild ends in one of two ways, the exec or its termination.
\* Every step it takes leads to the next position of its code or to its exit,
\* it stays where it is once it has exec'd or exited, an exited grandchild
\* holds no descriptor, and none of its steps touches the position, the
\* results, the service body or the trace of the old image's orchestrator.
C23_GrandchildExecsOrExits ==
    [][\A g \in Gens :
          /\ gpc'[g] \in {GOrder[i] : i \in DOMAIN GOrder} \cup {"none", "exited"}
          /\ gpc[g] \in {"execed", "exited"} => gpc'[g] = gpc[g]
          /\ gpc'[g] = "exited" => gfds'[g] = CloseAll
          /\ (gpc[g] \notin {"none", "execed", "exited"} /\ gpc'[g] # gpc[g]) =>
                /\ \/ gpc'[g] = "exited"
                   \/ GRank(gpc'[g]) = GRank(gpc[g]) + 1
                /\ pc'[g] = pc[g]
                /\ fr_result' = fr_result /\ result' = result
                /\ svc' = svc /\ finish_future' = finish_future
                /\ trace' = trace]_vars

\* C23 witness: the grandchild materialized the environment and then failed
\* (setsid or exec); it is gone, no new generation started, and the old
\* orchestrator alone went through its drain and returned.
C23_GrandchildGoneAfterPreExec ==
    \E g \in Gens :
        /\ g < MaxGen
        /\ gpc[g] = "exited"
        /\ store_calls[g] = <<[entry |-> 1, ok |-> TRUE]>>
        /\ pc[g + 1] = "none"
        /\ pc[g] = "done"
        /\ result[g] = "Ok"

\* ---------------------------------------------------------------------------
\* C24
\* ---------------------------------------------------------------------------

\* C24: once the parent has read a PID, fork_restart returns success and the
\* write of the go-ahead byte has been attempted, whether or not the PID-file
\* write, the MainPid notification, the barrier or the go-ahead write failed.
C24_AfterPidReadGoAndSuccess ==
    \A g \in Gens :
        (PidRead(g) /\ fr_result[g] # "none") =>
            /\ fr_result[g] = "Ok"
            /\ GoAt(g) # {}

\* ---------------------------------------------------------------------------
\* C25
\* ---------------------------------------------------------------------------

\* the second fork of generation g failed: the intermediate child is gone and
\* there is no grandchild
SecondForkFailed(g) == mpc[g] = "exited" /\ gpc[g] = "none"

\* C25: after a failed second fork there never is a grandchild, and the
\* parent of the first fork, unless it is killed, eventually returns success
\* from fork_restart; when it has returned, its PID read has failed on the
\* closed channel and it has made no MainPid notification, written no PID
\* file and no go-ahead byte.
C25_FailedSecondForkSeenAsFailedHandoff ==
    /\ [](\A g \in Gens :
            SecondForkFailed(g) =>
                /\ gpid[g] = 0
                /\ toParent[g] = <<>> /\ toChild[g] = <<>>
                /\ ~PnewOpen(g) \/ pc[g] = "p_drop_pnew"
                /\ fr_result[g] # "none" =>
                      /\ fr_result[g] = "Ok"
                      /\ Failed(g, "read_pid")
                      /\ MainPidAt(g) = {} /\ PidFileAt(g) = {} /\ GoAt(g) = {}
                      /\ StatusAt(g) = {})
    /\ \A g \in Gens :
          SecondForkFailed(g) ~> (fr_result[g] = "Ok" \/ pc[g] = "killed")

\* C25 witness: the second fork failed and the parent has returned Ok from
\* fork_restart after its PID read failed.
C25_ParentSawChannelClosed ==
    \E g \in Gens :
        /\ SecondForkFailed(g)
        /\ fr_result[g] = "Ok"
        /\ Failed(g, "read_pid")
        /\ pc[g] \in {"drain", "done"}

\* ---------------------------------------------------------------------------
\* C26
\* ---------------------------------------------------------------------------

\* fork_restart returned success without a child of the first fork
FirstForkFailed(g) == fr_result[g] = "Ok" /\ mpc[g] = "none"

\* C26: when the first fork failed, fork_restart has returned success and has
\* left nothing behind: no intermediate child and no grandchild, no PID handed
\* out, both directions of the channel empty and both endpoints closed, no
\* PID read, PID file, MainPid or Status notification and no go-ahead in the
\* trace, whose last entry is the barrier create_daemon called before
\* fork_restart, and no environment of a descendant.
C26_FailedFirstForkLeavesNothing ==
    \A g \in Gens :
        FirstForkFailed(g) =>
            /\ pc[g] \in {"drain", "done"}
            /\ gpc[g] = "none" /\ mpid[g] = 0 /\ gpid[g] = 0
            /\ nextPid = FirstPid + 1 + 2 * (g - 1)
            /\ toParent[g] = <<>> /\ toChild[g] = <<>>
            /\ ~HoldsKind(fds[g], "pold", g) /\ ~HoldsKind(fds[g], "pnew", g)
            /\ ReadPidAt(g) = {} /\ PidFileAt(g) = {} /\ MainPidAt(g) = {}
            /\ GoAt(g) = {} /\ StatusAt(g) = {}
            /\ trace[g] # <<>> /\ IsBarrier(trace[g][Len(trace[g])])
            /\ Cardinality({i \in DOMAIN trace[g] : IsBarrier(trace[g][i])}) = 1
            /\ \A n \in EnvNames : genv[g][n] = Absent
            /\ store_calls[g] = <<>>
            /\ child_pid[g] = 0

\* C26 witness: the first fork failed, fork_restart returned success and
\* create_daemon went on to return Ok.
C26_ForkFailedAndReturned ==
    \E g \in Gens :
        /\ FirstForkFailed(g)
        /\ faults > 0
        /\ pc[g] = "done"
        /\ result[g] = "Ok"

\* ---------------------------------------------------------------------------
\* C27
\* ---------------------------------------------------------------------------

\* every store function of the grandchild's registry was called and succeeded
Stored(g) ==
    store_calls[g] # <<>> /\ \A k \in DOMAIN store_calls[g] : store_calls[g][k].ok

\* C27: in the grandchild, setsid is reached only from a pre_exec in which
\* every store function succeeded and that set every registered name; exec is
\* reached only from a successful setsid, with the environment as pre_exec
\* left it; the new image starts only from exec, with exactly that
\* environment; and a grandchild that exits at one of the three steps starts
\* no new image.
C27_MaterializeSetsidExecInOrder ==
    [][\A g \in Gens :
          /\ (gpc'[g] = "setsid" /\ gpc[g] # "setsid") =>
                /\ gpc[g] = "pre_exec"
                /\ AllStored(gpre_exec[g], store_calls'[g])
                /\ \A i \in DOMAIN gpre_exec[g] :
                      genv'[g][gpre_exec[g][i].name].state = "present"
          /\ (gpc'[g] = "exec" /\ gpc[g] # "exec") =>
                /\ gpc[g] = "setsid"
                /\ Stored(g)
                /\ genv'[g] = genv[g]
          /\ (gpc'[g] = "execed" /\ gpc[g] # "execed") =>
                /\ gpc[g] = "exec"
                /\ Stored(g)
                /\ genv[g][LISTEN_FD].state = "present"
                /\ g < MaxGen
                /\ pc[g + 1] = "none" /\ pc'[g + 1] = "new"
                /\ env'[g + 1] = genv[g]
          /\ (g < MaxGen /\ gpc[g] \in {"pre_exec", "setsid", "exec"}
                         /\ gpc'[g] = "exited") =>
                pc'[g + 1] = "none"
          /\ gpc[g] \in {"setsid", "exec", "execed"} => Stored(g)]_vars

\* C27 witness: the grandchild went through pre_exec, setsid and exec, and
\* the new image runs with the environment pre_exec made.
C27_ExecedWithMaterializedEnvironment ==
    \E g \in Gens :
        /\ g < MaxGen
        /\ gpc[g] = "execed"
        /\ Stored(g)
        /\ pc[g + 1] # "none"
        /\ env[g + 1] = genv[g]
        /\ env[g + 1][LISTEN_FD].state = "present"

\* ---------------------------------------------------------------------------
\* C28
\* ---------------------------------------------------------------------------

\* C28: whatever the outcome of re-attaching standard output and standard
\* error to the journal (no journal stream, or a failed dup2 onto descriptor
\* 1 or 2), the grandchild goes on: from the first re-attachment to the
\* second, from the second to pre_exec.
C28_JournalFailureNeverStopsGrandchild ==
    [][\A g \in Gens :
          /\ (gpc[g] = "journal_out" /\ gpc'[g] # gpc[g]) => gpc'[g] = "journal_err"
          /\ (gpc[g] = "journal_err" /\ gpc'[g] # gpc[g]) => gpc'[g] = "pre_exec"]_vars

\* ---------------------------------------------------------------------------
\* C29
\* ---------------------------------------------------------------------------

\* the reads of the environment variable by generation g: Reloader::restore
\* reads it and either restores the descriptor or calls the factory
EnvReads(g) == EventsNamed(g, "restore") \cup EventsNamed(g, "factory")

\* C29: the environment variables are written by the grandchild only: in its
\* pre_exec step, after it read the go-ahead byte, once per reload attempt
\* and before exec.  The environment of the parent never changes while it
\* runs (a generation gets its environment from the exec that starts it), a
\* step of the intermediate child changes no environment, and a generation
\* reads the variable once, in Reloader::restore at daemon start.
C29_EnvWrittenOnceByGrandchildReadOnce ==
    [][\A g \in Gens :
          /\ store_calls'[g] # store_calls[g] =>
                /\ gpc[g] = "pre_exec"
                /\ ok_byte[g] = GoAheadByte
                /\ store_calls[g] = <<>>
                /\ gpc'[g] \in {"setsid", "exited"}
          /\ genv'[g] # genv[g] =>
                \/ pc[g] = "fork1" /\ mpc[g] = "none" /\ genv'[g] = env[g]
                \/ store_calls'[g] # store_calls[g]
          /\ mpc[g] = "fork2" /\ mpc'[g] # mpc[g] =>
                genv'[g] = genv[g] /\ env' = env
          /\ env'[g] # env[g] =>
                /\ pc[g] = "none"
                /\ g > 1
                /\ gpc[g - 1] = "exec"
                /\ GRank(gpc[g - 1]) > GRank("pre_exec")
                /\ env'[g] = genv[g - 1]
          /\ EnvReads(g)' # EnvReads(g) =>
                pc[g] = "restore" /\ EnvReads(g) = {}]_vars

\* a new generation has read, once, the variable its grandchild predecessor
\* wrote after the handshake, and the predecessor's own environment is still
\* the one it started with
C29_NewGenerationReadWrittenVariable ==
    \E g \in Gens :
        /\ g < MaxGen
        /\ gpc[g] = "execed"
        /\ ok_byte[g] = GoAheadByte
        /\ store_calls[g] # <<>>
        /\ genv[g] # env[g]
        /\ Cardinality(EnvReads(g + 1)) = 1
        /\ Succeeded(g + 1, "restore")

\* ---------------------------------------------------------------------------
\* C30
\* ---------------------------------------------------------------------------

\* the positions of the parent from its read of the PID to its write of the
\* go-ahead, and of the grandchild from its write of the PID to its read of
\* the go-ahead
ParentHandshake == {"p_read_pid", "p_pidfile", "p_mainpid", "p_barrier", "p_write_go"}
GrandchildHandshake == {"send_pid", "read_go"}

\* C30: during the handshake each end holds its own endpoint only: the
\* parent holds pold and no copy of pnew from its read of the PID on, the
\* grandchild holds pnew and no copy of pold from its write of the PID on.
\* Once the intermediate child has exited, an end that is gone leaves its
\* side of the channel closed for the other end.
C30_EachEndHoldsItsOwnEndpoint ==
    \A g \in Gens :
        /\ pc[g] \in ParentHandshake =>
              /\ ~HoldsKind(fds[g], "pnew", g)
              /\ HoldsKind(fds[g], "pold", g)
        /\ gpc[g] \in GrandchildHandshake =>
              /\ ~HoldsKind(gfds[g], "pold", g)
              /\ HoldsKind(gfds[g], "pnew", g)
        /\ (pc[g] \in ParentHandshake /\ mpc[g] = "exited") =>
              (PnewOpen(g) <=> gpc[g] \in GrandchildHandshake \cup {"drop_pold"})
        /\ (gpc[g] \in GrandchildHandshake /\ mpc[g] = "exited"
                /\ pc[g] # "p_drop_pnew") =>
              (PoldOpen(g) <=> pc[g] \in ParentHandshake)

\* both ends are in the handshake, the intermediate child is gone and part
\* of the PID is in flight
C30_BothEndsInHandshake ==
    \E g \in Gens :
        /\ pc[g] = "p_read_pid"
        /\ gpc[g] = "send_pid"
        /\ mpc[g] = "exited"
        /\ toParent[g] # <<>>
        /\ ~HoldsKind(fds[g], "pnew", g)
        /\ ~HoldsKind(gfds[g], "pold", g)
        /\ PoldOpen(g) /\ PnewOpen(g)

\* ---------------------------------------------------------------------------
\* C31
\* ---------------------------------------------------------------------------

\* C31: the only bytes ever written to the channel of a reload are the bytes
\* of one PID, in order, by the grandchild in its send position (at most
\* PidWidth of them, and the grandchild enters that position once), and one
\* byte of value 1 by the parent in its last handshake position, after it
\* has read a PID; every other change of the channel is a read.
C31_OnlyOnePidThenOneGoByte ==
    [][\A g \in Gens :
          /\ toParent'[g] # toParent[g] =>
                \/ /\ gpc[g] = "send_pid"
                   /\ Len(toParent[g]) < PidWidth
                   /\ toParent'[g] =
                         Append(toParent[g], ToNeBytes(gpid[g])[Len(toParent[g]) + 1])
                   /\ toChild[g] = <<>> /\ GoAt(g) = {}
                \/ /\ pc[g] = "p_read_pid"
                   /\ gpc'[g] = gpc[g]
                   /\ Len(toParent'[g]) < Len(toParent[g])
          /\ (gpc'[g] = "send_pid" /\ gpc[g] # "send_pid") =>
                gpc[g] = "drop_pold" /\ toParent[g] = <<>>
          /\ toChild'[g] # toChild[g] =>
                \/ /\ pc[g] = "p_write_go"
                   /\ pc'[g] # "p_write_go"
                   /\ PidRead(g)
                   /\ GoAt(g) = {}
                   /\ toChild[g] = <<>>
                   /\ toChild'[g] = <<GoAheadByte>>
                \/ /\ gpc[g] = "read_go"
                   /\ pc'[g] = pc[g]
                   /\ toChild'[g] = Tail(toChild[g])
          /\ GoAt(g)' # GoAt(g) => pc[g] = "p_write_go" /\ GoAt(g) = {}]_vars

\* the whole exchange happened: the parent read a full PID, wrote the byte,
\* and the grandchild took it
C31_PidAndGoExchanged ==
    \E g \in Gens :
        /\ PidRead(g)
        /\ child_pid[g] = gpid[g]
        /\ Succeeded(g, "go")
        /\ ok_byte[g] = GoAheadByte
        /\ toParent[g] = <<>> /\ toChild[g] = <<>>

\* ---------------------------------------------------------------------------
\* C32
\* ---------------------------------------------------------------------------

\* the text the parent puts into the PID file for the PID n
PidFileText(n) == to_string(n) \o <<"\n">>

\* C32: the PID in the MainPid notification and in the PID file (decimal
\* text and a newline) is the PID of the grandchild, which is neither the
\* PID of the intermediate child nor that of the old process, and the
\* process that execs afterwards runs under that PID.
C32_AnnouncedPidIsGrandchildPid ==
    [][\A g \in Gens :
          /\ (pc[g] = "p_pidfile" /\ pidFile' # pidFile) =>
                /\ pidFile' = PidFileText(gpid[g])
                /\ pidFile' # PidFileText(mpid[g])
                /\ pidFile' # PidFileText(pid[g])
          /\ pidFile' # pidFile => \E h \in Gens : pc[h] = "p_pidfile" /\ pc'[h] # pc[h]
          /\ MainPidAt(g)' # MainPidAt(g) =>
                \A i \in MainPidAt(g)' :
                    /\ trace'[g][i].msg.value = to_string(gpid[g])
                    /\ trace'[g][i].msg.value # to_string(mpid[g])
                    /\ trace'[g][i].msg.value # to_string(pid[g])
          /\ (gpc[g] = "exec" /\ gpc'[g] = "execed") =>
                /\ pid'[g + 1] = gpid[g]
                /\ \A i \in MainPidAt(g) :
                       trace[g][i].msg.value = to_string(pid'[g + 1])
                /\ Succeeded(g, "pidfile") =>
                       \/ pidFile = PidFileText(pid'[g + 1])
                       \/ \E h \in Gens : h > g /\ Succeeded(h, "pidfile")]_vars

\* the new generation runs under the PID that was announced and written
C32_NewGenerationRunsUnderAnnouncedPid ==
    \E g \in Gens :
        /\ g < MaxGen
        /\ gpc[g] = "execed"
        /\ pidFile = PidFileText(pid[g + 1])
        /\ \E i \in MainPidAt(g) :
               trace[g][i].ok /\ trace[g][i].msg.value = to_string(pid[g + 1])
        /\ pid[g + 1] > 255
        /\ pid[g + 1] \notin {pid[g], mpid[g]}

\* ---------------------------------------------------------------------------
\* C33
\* ---------------------------------------------------------------------------

\* A caller that keeps its Reloader and calls restore several times, for any
\* of the names, whatever the outcome of the previous call: the state after
\* Reloader::new, with the environment and descriptors of a fresh process.
InitRestore ==
    \E sc \in InitScenarios :
        /\ pc = [g \in Gens |-> IF g = 1 THEN "restore" ELSE "none"]
        /\ pid = [g \in Gens |-> IF g = 1 THEN FirstPid ELSE 0]
        /\ env = [g \in Gens |-> [n \in EnvNames |->
                    IF g = 1 /\ n = LISTEN_FD THEN sc.env ELSE Absent]]
        /\ fds = [g \in Gens |-> IF g = 1 THEN sc.fds ELSE CloseAll]
        /\ listener = [g \in Gens |-> -1]
        /\ pre_exec = [g \in Gens |-> <<>>]
        /\ pidfn = [g \in Gens |-> FALSE]
        /\ svc = [g \in Gens |-> "none"]
        /\ finish_future = [g \in Gens |-> FALSE]
        /\ SHUTDOWN_REQUESTED = [g \in Gens |-> FALSE]
        /\ reload_request = [g \in Gens |-> FALSE]
        /\ result = [g \in Gens |-> "none"]
        /\ fr_result = [g \in Gens |-> "none"]
        /\ trace = [g \in Gens |-> <<>>]
        /\ factoryCalls = [g \in Gens |-> 0]
        /\ child_pid = [g \in Gens |-> 0]
        /\ mpc = [g \in Gens |-> "none"]
        /\ mpid = [g \in Gens |-> 0]
        /\ gpc = [g \in Gens |-> "none"]
        /\ gpid = [g \in Gens |-> 0]
        /\ gfds = [g \in Gens |-> CloseAll]
        /\ genv = [g \in Gens |-> [n \in EnvNames |-> Absent]]
        /\ gpre_exec = [g \in Gens |-> <<>>]
        /\ store_calls = [g \in Gens |-> <<>>]
        /\ ok_byte = [g \in Gens |-> -1]
        /\ toParent = [g \in Gens |-> <<>>]
        /\ toChild = [g \in Gens |-> <<>>]
        /\ pidFile = <<>>
        /\ faults = 0
        /\ nextPid = FirstPid + 1

\* one call of reloader.restore(name, or_create) on a Reloader the caller
\* keeps (&mut self): the registry, the descriptor table and the returned
\* object are what Reloader::restore leaves; at most MaxEntries calls
Restore_Call(g) ==
    /\ pc[g] = "restore"
    /\ Cardinality(EnvReads(g)) < MaxEntries
    /\ \E name \in EnvNames, fault \in RestoreFaults :
        LET r == Reloader_restore(fds[g], pre_exec[g], name, env[g][name],
                                  g, fault # "from_std", fault # "bind", fault # "dup")
            r0 == Reloader_restore(fds[g], pre_exec[g], name, env[g][name],
                                   g, TRUE, TRUE, TRUE)
        IN  /\ fault = "none" \/ r # r0
            /\ factoryCalls' = [factoryCalls EXCEPT ![g] = @ + r.factory]
            /\ trace' = [trace EXCEPT ![g] = @ \o RestoreEvents(r)]
            /\ fds' = [fds EXCEPT ![g] = r.fds]
            /\ listener' = [listener EXCEPT ![g] = r.listener]
            /\ pre_exec' = [pre_exec EXCEPT ![g] = r.pre_exec]
            /\ result' = [result EXCEPT ![g] = IF r.ok THEN "Ok" ELSE "Err"]
    /\ UNCHANGED <<pc, pid, env, pidfn, svc, finish_future, fr_result, child_pid>>
    /\ UNCHANGED <<flagVars, childVars, chanVars, pidFile, nextPid, faults>>

NextRestore == \E g \in Gens : Restore_Call(g)

SpecRestore == InitRestore /\ [][NextRestore]_vars

\* C33: a call of Reloader::restore that succeeds appends one entry at the
\* end of the registry and leaves the entries before it and their order as
\* they were; a call that fails (restoration, factory, or the creation of
\* the store function) leaves the registry as it was.
C33_RegistryAppendOnly ==
    [][\A g \in Gens :
          EnvReads(g)' # EnvReads(g) =>
              /\ result'[g] = "Ok" =>
                    /\ Len(pre_exec'[g]) = Len(pre_exec[g]) + 1
                    /\ SubSeq(pre_exec'[g], 1, Len(pre_exec[g])) = pre_exec[g]
                    /\ pre_exec'[g][Len(pre_exec'[g])].name \in EnvNames
              /\ result'[g] = "Err" => pre_exec'[g] = pre_exec[g]
              /\ result'[g] \in {"Ok", "Err"}]_vars

\* a registry of two entries or more on which a call has just failed, after
\* the store function could not be created
C33_FailedCallOnFilledRegistry ==
    \E g \in Gens :
        /\ Len(pre_exec[g]) >= 2
        /\ pre_exec[g][1].name # pre_exec[g][2].name
        /\ result[g] = "Err"
        /\ Failed(g, "get_store_func")
        /\ trace[g][Len(trace[g])].ev = "get_store_func"
        /\ ~trace[g][Len(trace[g])].ok

\* ---------------------------------------------------------------------------
\* C34
\* ---------------------------------------------------------------------------

\* the descriptors the registry owns: the duplicates made by fd_store_func
RegistryDups(reg) == {reg[k].fd_opt : k \in DOMAIN reg} \cap FdNums

\* the listening descriptors of a table
Listening(t) == {f \in FdNums : t[f].kind = "listen"}

\* C34: the reload never closes the listener of the service body.  While
\* the service body runs, its listener is an open listening descriptor; the
\* step in which fork_restart returns (with any outcome) closes nothing but
\* the duplicates of the registry and the channel endpoints; and the
\* listener is closed only once the service body is no longer running.
C34_ReloadKeepsServiceListener ==
    /\ [](\A g \in Gens :
            (svc[g] = "running" /\ pc[g] # "killed") =>
                listener[g] \in Listening(fds[g]))
    /\ [][\A g \in Gens :
            /\ fr_result'[g] # fr_result[g] =>
                  /\ listener'[g] = listener[g]
                  /\ \A f \in FdNums :
                        fds'[g][f] # fds[g][f] =>
                            /\ fds'[g][f] = NoFd
                            /\ f # listener[g]
                            /\ \/ f \in RegistryDups(pre_exec[g])
                               \/ fds[g][f].kind \in {"pold", "pnew"}
            /\ (listener[g] \in FdNums /\ pc'[g] # "killed"
                    /\ fds'[g][listener[g]] # fds[g][listener[g]]) =>
                  svc[g] # "running" \/ SvcDone(g)]_vars

\* fork_restart has returned and dropped the registry while the service
\* body is still running on its listener, the only listening descriptor
\* the old process has left
C34_RegistryDroppedServiceStillListening ==
    \E g \in Gens :
        /\ fr_result[g] # "none"
        /\ pc[g] = "drain"
        /\ svc[g] = "running"
        /\ pre_exec[g] = <<>>
        /\ Listening(fds[g]) = {listener[g]}

\* ---------------------------------------------------------------------------
\* C35
\* ---------------------------------------------------------------------------

\* a step of one of the three processes of a reload, up to the end of the
\* handshake: the parent inside fork_restart (its system calls return, the
\* barrier included), the intermediate child, the grandchild up to its read
\* of the go-ahead
HandshakeStep ==
    \E g \in Gens :
        \/ FR_Socketpair(g)
        \/ FR_Fork1(g)
        \/ FR_ParentDropPnew(g)
        \/ FR_ParentReadPid(g)
        \/ FR_PidFile(g)
        \/ FR_NotifyMainPid(g)
        \/ FR_Barrier(g)
        \/ FR_WriteGo(g)
        \/ M_Fork2(g)
        \/ G_DropPold(g)
        \/ G_SendPid(g)
        \/ G_ReadGo(g)

\* The scheduler runs a process of the handshake that can take a step; the
\* crashes (G_Killed, OrchestratorKilled) and everything outside the
\* handshake may or may not happen.
SpecHandshakeRuns == Init /\ [][Next]_vars /\ WF_vars(HandshakeStep)

\* the parent is inside fork_restart
InForkRestart(g) == pc[g] \in {"socketpair", "fork1"} \/ InHandshake(g)

\* the parent is no longer inside fork_restart: it returned, or it is gone
ParentLeft(g) == fr_result[g] # "none" \/ pc[g] = "killed"

\* C35: the handshake cannot deadlock.  The parent leaves fork_restart only
\* by its return or its death, and under fair scheduling every execution
\* reaches a point from which no parent is inside fork_restart any more,
\* whatever the forks did and whenever a descendant crashed, and no
\* grandchild is waiting for the go-ahead of a parent that has returned or
\* exited.
C35_HandshakeTerminates ==
    /\ [][\A g \in Gens :
            (InForkRestart(g) /\ ~InForkRestart(g)') => ParentLeft(g)']_vars
    /\ <>[](\A g \in Gens :
              /\ ~InForkRestart(g)
              /\ ~(gpc[g] = "read_go" /\ ParentLeft(g)))

\* the grandchild crashed with part of its PID sent, and the parent came
\* back from fork_restart all the same
C35_ParentReturnedAfterGrandchildCrash ==
    \E g \in Gens :
        /\ gpc[g] = "exited"
        /\ gpid[g] # 0
        /\ ok_byte[g] = -1
        /\ fr_result[g] = "Ok"
        /\ \E i \in ReadPidAt(g) :
               ~trace[g][i].ok /\ trace[g][i].msg.value # <<>>

\* ---------------------------------------------------------------------------
\* C36
\* ---------------------------------------------------------------------------

\* the parent has left fork_restart after a grandchild was created, without
\* a go-ahead byte written
ParentLeftWithoutGo(g) ==
    /\ ParentLeft(g)
    /\ gpc[g] # "none"
    /\ ~Succeeded(g, "go")

\* C36: when the parent has left fork_restart without writing the go-ahead
\* although a grandchild exists, the parent holds no endpoint of the channel
\* and no go-ahead is in flight, the grandchild has written no environment
\* variable and is not past its read of the go-ahead, its step out of that
\* read is its exit, and no new generation has started; a process image is
\* started only after a go-ahead was written.
C36_NoGoAheadNoNewImage ==
    /\ [](\A g \in Gens :
            /\ ParentLeftWithoutGo(g) =>
                  /\ ~HoldsKind(fds[g], "pold", g)
                  /\ toChild[g] = <<>>
                  /\ ok_byte[g] # GoAheadByte
                  /\ gpc[g] \in {"drop_pold", "send_pid", "read_go", "exited"}
                  /\ store_calls[g] = <<>>
                  /\ genv[g] = env[g]
                  /\ g < MaxGen => pc[g + 1] = "none"
            /\ gpc[g] = "execed" => Succeeded(g, "go"))
    /\ [][\A g \in Gens :
            (ParentLeftWithoutGo(g) /\ gpc[g] = "read_go" /\ gpc'[g] # gpc[g]) =>
                /\ gpc'[g] = "exited"
                /\ ~PoldOpen(g)
                /\ ok_byte'[g] = ok_byte[g]]_vars

\* the PID-file write failed after the PID was read: fork_restart returned
\* the error, and the grandchild, which got as far as its read of the
\* go-ahead without being killed, has exited
C36_GrandchildExitedAfterPidFileError ==
    \E g \in Gens :
        /\ Failed(g, "pidfile")
        /\ fr_result[g] = "Err"
        /\ pc[g] \in {"drain", "done"}
        /\ gpc[g] = "exited"
        /\ faults = 1
        /\ toChild[g] = <<>>
        /\ StatusAt(g) # {}

\* ---------------------------------------------------------------------------
\* C37
\* ---------------------------------------------------------------------------

\* the listening descriptors of a table that an exec keeps
Inheritable(t) == {f \in Listening(t) : ~t[f].cloexec}

\* C37: a generation started by a reload starts with one listening
\* descriptor, the one its variable names, on the socket of the first
\* generation's listener.  The first generation may itself have been
\* started by a reload (its variable names an inherited descriptor), so two
\* consecutive reloads are covered.  Descriptors do not pile up: at the exec
\* every listening descriptor of the grandchild except the one handed over
\* is close-on-exec, and a process never has more than the listener and one
\* duplicate.
C37_OneInheritedListenerPerGeneration ==
    /\ [](\A g \in Gens :
            /\ (g > 1 /\ pc[g] = "new") =>
                  /\ Listening(fds[g]) = {TokenFd(env[g][LISTEN_FD])}
                  /\ IsOriginListener(fds[g], TokenFd(env[g][LISTEN_FD]))
            /\ Cardinality(Listening(fds[g])) <= 2
            /\ Cardinality(Listening(gfds[g])) <= 2)
    /\ [][\A g \in Gens :
            (gpc[g] = "exec" /\ gpc'[g] = "execed") =>
                /\ Inheritable(gfds[g]) = {TokenFd(genv[g][LISTEN_FD])}
                /\ Listening(fds'[g + 1]) = Inheritable(gfds[g])
                /\ listener[g] \in FdNums =>
                      /\ gfds[g][listener[g]].kind = "listen"
                      /\ gfds[g][listener[g]].cloexec]_vars

\* a generation that was itself started from an inherited descriptor has
\* handed the socket over: the next generation starts with one listening
\* descriptor, while its predecessor held the listener and the duplicate
C37_SecondHandoverStartsWithOneListener ==
    \E g \in Gens :
        /\ g > 1
        /\ pc[g] = "new"
        /\ env[g - 1][LISTEN_FD].state = "present"
        /\ Cardinality(Listening(fds[g])) = 1
        /\ listener[g - 1] \in Listening(fds[g - 1])
        /\ TokenFd(env[g][LISTEN_FD]) # listener[g - 1]

\* ---------------------------------------------------------------------------
\* C38
\* ---------------------------------------------------------------------------

\* the select resolved with the finished service body although a reload
\* request is flagged
LeftTakenWithReload(g) == LeftTaken(g) /\ is_reload_request(g)

\* C38: the step that inspects the reload request goes to the Reloading
\* notification exactly when a reload request is flagged at that moment,
\* and to the end of create_daemon otherwise, whichever side won the race
\* (finish_future is not looked at).  When the service body won and a
\* reload request is flagged, the Reloading notification and fork_restart
\* run before the end of create_daemon is reached, and there nothing is
\* waited for: the drain step can be taken at once.
C38_ReloadDecidedByFlagNotByRace ==
    /\ [][\A g \in Gens :
            (pc[g] = "check_reload" /\ pc'[g] # pc[g]) =>
                /\ pc'[g] = "notify_reloading" <=> is_reload_request(g)
                /\ pc'[g] = "drain" <=> ~is_reload_request(g)
                /\ finish_future'[g] = finish_future[g]]_vars
    /\ [](\A g \in Gens :
            /\ (LeftTakenWithReload(g) /\ pc[g] \in {"drain", "done"}) =>
                  /\ ReloadingAt(g) # {}
                  /\ fr_result[g] # "none"
            /\ (LeftTaken(g) /\ pc[g] = "drain") => DrainReady(g))

\* the service body finished first with a reload request flagged, the whole
\* reload went through and create_daemon is at its end with nothing to drain
C38_ReexecAfterServiceFinishedFirst ==
    \E g \in Gens :
        /\ g < MaxGen
        /\ LeftTakenWithReload(g)
        /\ pc[g] = "drain"
        /\ ReloadingAt(g) # {}
        /\ Succeeded(g, "go")
        /\ gpc[g] = "execed"
        /\ pc[g + 1] # "none"

====
